---- MODULE Spec2Model ----
(***************************************************************************)
(* LexBrain: fact store (put / get / expire), advisory locks, and the      *)
(* fold-radius neighbourhood extractor of the codemap indexer.             *)
(*                                                                         *)
(*   Spec      the shared SQLite store driven by concurrent callers        *)
(*   SpecLock  the advisory locks driven by concurrent callers             *)
(*   SpecNbr   extractNeighborhood applied to bounded inputs               *)
(*   SpecFrame the frames and atlas_frames tables and recall               *)
(*   SpecPut   put requests of every TTL, actor and refs, one at a time    *)
(*   SpecHold  the locks next to every other operation on the store        *)
(*   SpecHash  the content hash applied to payloads in every key order     *)
(*   SpecGet   get queries over facts stored with and without path, symbol *)
(*   SpecAtlas Atlas Frames stored, replaced and looked up by Frame        *)
(*   SpecMatch recall by reference points of several words                 *)
(*   SpecKind  put requests of every kind on either transport              *)
(*   SpecGc    the collection timer of the HTTP server, with fairness      *)
(*   SpecMeta  extractNeighborhood on policies with optional metadata      *)
(*   SpecExpire  collection runs of two servers beside puts                *)
(*   SpecUnion extractNeighborhood on two seed arrays and on both together *)
(*   SpecTool  the MCP tool lexmap_get_atlas_frame                         *)
(*   SpecStale puts and gets of facts whose TTL has passed                 *)
(*   SpecIndex a Frame replaced with other text, and text recalls          *)
(*   SpecZk    the SDK in zk mode: encrypted puts, gets and decryption     *)
(*   SpecStdio the stdio message loop of the MCP server, with fairness     *)
(***************************************************************************)
EXTENDS Integers, Sequences, FiniteSets, TLC

VARIABLES
    inputs,     \* the put requests the callers of this run submit
    facts,      \* facts table: set of rows, fact_id is the primary key
    locks,      \* locks table: set of rows, name is the primary key
    now,        \* wall clock, in milliseconds
    pc,         \* per caller: "idle" | "pending" | "done"
    req,        \* per caller: the request in flight
    resp,       \* per caller: the response to the last request
    ncalls,     \* requests issued so far
    nhandled,   \* requests executed so far
    lockLog,    \* responses of the lock operations, in execution order
    gc,         \* the collection run at the current instant: its time and count
    op,         \* the last operation executed one at a time, and its outcome
    nb_in,      \* arguments of extractNeighborhood
    nb_radius,  \* foldRadius of the last call
    nb_out,     \* what the last call returned (or threw)
    frames,     \* frames table: set of rows, id is the primary key
    frames_fts, \* full-text index over the frames, keyed by rowid
    atlas_frames, \* atlas_frames table: atlas_frame_id is the primary key
    lastFrame,  \* per frame id: the Frame most recently passed to insertFrame
    nframes,    \* insertFrame calls so far
    fr_out,     \* what the last recall returned (or threw)
    stdio       \* the stdio message loop: text to come and arrived, buffer, lines, log

storeVars == <<inputs, facts, locks, now, pc, req, resp, ncalls, nhandled, lockLog, gc, op>>
nbVars == <<nb_in, nb_radius, nb_out>>
frameVars == <<frames, frames_fts, atlas_frames, lastFrame, nframes, fr_out>>
vars == <<inputs, facts, locks, now, pc, req, resp, ncalls, nhandled, lockLog, gc, op, nb_in, nb_radius, nb_out, frames, frames_fts, atlas_frames, lastFrame, nframes, fr_out, stdio>>

(***************************************************************************)
(* Generic helpers                                                         *)
(***************************************************************************)
Range(s) == {s[i] : i \in 1..Len(s)}

Has(s, x) == \E i \in 1..Len(s) : s[i] = x

Reverse(s) == [i \in 1..Len(s) |-> s[Len(s) + 1 - i]]

Max(S) == CHOOSE x \in S : \A y \in S : x >= y

Min(S) == CHOOSE x \in S : \A y \in S : x <= y

RECURSIVE SetToSortedSeq(_)
SetToSortedSeq(S) ==
    IF S = {} THEN <<>>
    ELSE LET m == Min(S) IN <<m>> \o SetToSortedSeq(S \ {m})

IsSorted(s) == \A i \in 1..Len(s) : \A j \in 1..Len(s) : i < j => s[i] <= s[j]

NoDup(s) == \A i \in 1..Len(s) : \A j \in 1..Len(s) : i # j => s[i] # s[j]

(***************************************************************************)
(* JSON values and text.  A string is a sequence of tokens, a JSON text is *)
(* the token sequence JSON.stringify emits, and an object lists its own    *)
(* keys in insertion order.                                                *)
(***************************************************************************)
JNum(n) == [t |-> "num", n |-> n, s |-> <<>>, kv |-> <<>>]
JStr(s) == [t |-> "str", n |-> 0, s |-> s, kv |-> <<>>]
JObj(kv) == [t |-> "obj", n |-> 0, s |-> <<>>, kv |-> kv]

\* an optional value: undefined in a request, NULL in a column
None == [some |-> FALSE, v |-> <<>>]
Some(v) == [some |-> TRUE, v |-> v]
NoNumber == [some |-> FALSE, v |-> 0]

\* every key name of the model in ascending code-unit order
KeyOrder ==
    <<"a", "b", "ciphertext", "commit", "inputs_hash", "iv", "kind", "path",
      "payload_hash", "repo", "scope", "symbol">>

\* Object.keys(v): own keys in insertion order (none for a primitive)
ObjectKeys(v) == [i \in 1..Len(v.kv) |-> v.kv[i][1]]

\* Array.prototype.sort() on key names
SortKeys(keys) == SelectSeq(KeyOrder, LAMBDA k : Has(keys, k))

\* obj[k]
Member(v, k) == (CHOOSE i \in 1..Len(v.kv) : v.kv[i][1] = k)

RECURSIVE JoinMembers(_)
JoinMembers(ms) ==
    IF ms = <<>> THEN <<>>
    ELSE IF Len(ms) = 1 THEN ms[1]
    ELSE ms[1] \o <<",">> \o JoinMembers(Tail(ms))

\* JSON.stringify(v): every own key, in insertion order
RECURSIVE Stringify(_)
Stringify(v) ==
    IF v.t = "num" THEN <<ToString(v.n)>>
    ELSE IF v.t = "str" THEN <<"\"">> \o v.s \o <<"\"">>
    ELSE <<"{">> \o
         JoinMembers([i \in 1..Len(v.kv) |->
             <<"\"", v.kv[i][1], "\"", ":">> \o Stringify(v.kv[i][2])]) \o
         <<"}">>

\* JSON.stringify(v, allow): the array replacer is a property allowlist that
\* is applied to the object and to every object nested in it, and the
\* members are emitted in the order of the array
RECURSIVE StringifyWith(_, _)
StringifyWith(v, allow) ==
    IF v.t = "num" THEN <<ToString(v.n)>>
    ELSE IF v.t = "str" THEN <<"\"">> \o v.s \o <<"\"">>
    ELSE LET present == SelectSeq(allow, LAMBDA k : Has(ObjectKeys(v), k))
         IN <<"{">> \o
            JoinMembers([i \in 1..Len(present) |->
                <<"\"", present[i], "\"", ":">> \o
                StringifyWith(v.kv[Member(v, present[i])][2], allow)]) \o
            <<"}">>

\* the SHA-256 hex digest of a text; the digest is taken to be injective
Digest(text) == <<"sha256(">> \o text \o <<")">>

\* a variant of sha256 that serialises without the sorted key list
sha256Unsorted(obj) == Digest(Stringify(obj))

\* crypto.ts sha256: JSON.stringify(obj, Object.keys(obj).sort())
sha256(obj) == Digest(StringifyWith(obj, SortKeys(ObjectKeys(obj))))

\* the scope object after Scope.parse: repo, commit and the optional fields
\* that were supplied
ScopeObject(scope) ==
    JObj(<< <<"repo", JStr(scope.repo)>>, <<"commit", JStr(scope.commit)>> >>
         \o (IF scope.path.some THEN << <<"path", JStr(scope.path.v)>> >> ELSE <<>>)
         \o (IF scope.symbol.some THEN << <<"symbol", JStr(scope.symbol.v)>> >> ELSE <<>>))

\* crypto.ts factId
factId(kind, scope, inputs_hash, payload_hash) ==
    sha256(JObj(<< <<"kind", JStr(kind)>>,
                   <<"scope", ScopeObject(scope)>>,
                   <<"inputs_hash", JStr(inputs_hash)>>,
                   <<"payload_hash", JStr(payload_hash)>> >>))

\* sdk-ts sha256 (duplicated from the server)
sdkSha256(obj) == Digest(StringifyWith(obj, SortKeys(ObjectKeys(obj))))

\* x || "" for an optional string
OrEmpty(opt) == IF opt.some THEN opt.v ELSE <<>>

\* mcp-server.mjs sha256: a string is hashed as it is
mcpSha256(obj) ==
    IF obj.t = "str" THEN Digest(obj.s)
    ELSE Digest(StringifyWith(obj, SortKeys(ObjectKeys(obj))))

\* mcp-server.mjs factId: the components joined with colons
mcpFactId(kind, scope, inputs_hash, payloadHash) ==
    mcpSha256(JStr(kind \o <<":">> \o scope.repo \o <<":">> \o scope.commit
                   \o <<":">> \o OrEmpty(scope.path)
                   \o <<":">> \o OrEmpty(scope.symbol)
                   \o <<":">> \o inputs_hash \o <<":">> \o payloadHash))

(***************************************************************************)
(* The facts and locks tables (db.ts)                                      *)
(***************************************************************************)
\* x || null for an optional string: undefined and "" become NULL
OrNull(opt) == IF opt.some /\ opt.v # <<>> THEN opt ELSE None

\* x || null for an optional number: undefined and 0 become NULL
OrNullNumber(opt) == IF opt.some /\ opt.v # 0 THEN opt ELSE NoNumber

\* JSON.stringify of an array of strings
StringifyArray(xs) ==
    <<"[">> \o JoinMembers([i \in 1..Len(xs) |-> <<"\"">> \o xs[i] \o <<"\"">>]) \o <<"]">>

\* the values JavaScript treats as false: "" and 0 among those of the model
Falsy(v) == (v.t = "str" /\ v.s = <<>>) \/ (v.t = "num" /\ v.n = 0)

\* fact.actor ? JSON.stringify(fact.actor) : null
StringifyOrNull(opt) == IF opt.some /\ ~Falsy(opt.v) THEN Some(Stringify(opt.v)) ELSE None

\* fact.refs ? JSON.stringify(fact.refs) : null (an empty array is not false)
StringifyArrayOrNull(opt) == IF opt.some THEN Some(StringifyArray(opt.v)) ELSE None

\* a variant of INSERT OR IGNORE that replaces the stored row
InsertOrReplace(table, key, row) ==
    [changes |-> 1, table |-> {r \in table : r[key] # row[key]} \cup {row}]

\* INSERT OR IGNORE INTO table ... under PRIMARY KEY key: one atomic statement
InsertOrIgnore(table, key, row) ==
    IF \E r \in table : r[key] = row[key]
    THEN [changes |-> 0, table |-> table]
    ELSE [changes |-> 1, table |-> table \cup {row}]

\* DELETE FROM table WHERE cond
DeleteWhere(table, matching) ==
    [changes |-> Cardinality(matching), table |-> table \ matching]

\* a variant of insertFact whose INSERT does not test the primary key
insertFactUnconditionally(table, fact) ==
    [inserted |-> TRUE,
     table |-> table \cup
        {[fact_id |-> fact.fact_id, kind |-> fact.kind, repo |-> fact.scope.repo,
          commit |-> fact.scope.commit, path |-> OrNull(fact.scope.path),
          symbol |-> OrNull(fact.scope.symbol), inputs_hash |-> fact.inputs_hash,
          payload |-> fact.payload_json, ts |-> fact.ts,
          ttl_seconds |-> OrNullNumber(fact.ttl_seconds),
          actor |-> StringifyOrNull(fact.actor),
          refs |-> StringifyArrayOrNull(fact.refs)]}]

\* DbManager.insertFact
insertFact(table, fact) ==
    LET res == InsertOrIgnore(table, "fact_id",
                   [fact_id |-> fact.fact_id,
                    kind |-> fact.kind,
                    repo |-> fact.scope.repo,
                    commit |-> fact.scope.commit,
                    path |-> OrNull(fact.scope.path),
                    symbol |-> OrNull(fact.scope.symbol),
                    inputs_hash |-> fact.inputs_hash,
                    payload |-> fact.payload_json,
                    ts |-> fact.ts,
                    ttl_seconds |-> OrNullNumber(fact.ttl_seconds),
                    actor |-> StringifyOrNull(fact.actor),
                    refs |-> StringifyArrayOrNull(fact.refs)])
    IN [inserted |-> res.changes > 0, table |-> res.table]

\* a variant of getFacts that matches an omitted optional filter against NULL
getFactsNullMatching(table, query) ==
    {r \in table :
        /\ r.repo = query.repo
        /\ r.commit = query.commit
        /\ r.kind = query.kind
        /\ r.path = query.path
        /\ r.symbol = query.symbol
        /\ (query.inputs_hash.some => r.inputs_hash = query.inputs_hash.v)}

\* DbManager.getFacts
getFacts(table, query) ==
    {r \in table :
        /\ r.repo = query.repo
        /\ r.commit = query.commit
        /\ r.kind = query.kind
        /\ (query.path.some => r.path = query.path)
        /\ (query.symbol.some => r.symbol = query.symbol)
        /\ (query.inputs_hash.some => r.inputs_hash = query.inputs_hash.v)}

\* tools.thought_get: the same SELECT, built by the MCP server itself
mcpGetFacts(table, args) ==
    {r \in table :
        /\ r.repo = args.repo
        /\ r.commit = args.commit
        /\ r.kind = args.kind
        /\ (args.path.some => r.path = args.path)
        /\ (args.symbol.some => r.symbol = args.symbol)
        /\ (args.inputs_hash.some => r.inputs_hash = args.inputs_hash.v)}

\* JSON.parse of the text of a number, a string or an object, from position
\* i on: the value and the position after it
RECURSIVE ParseAt(_, _)
RECURSIVE ParseMembers(_, _, _)
ParseAt(text, i) ==
    IF text[i] = "\"" THEN
        LET close == CHOOSE j \in (i + 1)..Len(text) :
                        text[j] = "\"" /\ \A k \in (i + 1)..(j - 1) : text[k] # "\""
        IN [v |-> JStr(SubSeq(text, i + 1, close - 1)), next |-> close + 1]
    ELSE IF text[i] = "{" THEN ParseMembers(text, i + 1, <<>>)
    ELSE [v |-> JNum(CHOOSE n \in -1..9 : ToString(n) = text[i]), next |-> i + 1]

\* the members of an object from position i on, after those of acc
ParseMembers(text, i, acc) ==
    IF text[i] = "}" THEN [v |-> JObj(acc), next |-> i + 1]
    ELSE IF text[i] = "," THEN ParseMembers(text, i + 1, acc)
    ELSE LET val == ParseAt(text, i + 4)
         IN ParseMembers(text, val.next, Append(acc, <<text[i + 1], val.v>>))

\* JSON.parse(row.payload)
Parse(text) == ParseAt(text, 1).v

\* POST /get, tools.thought_get: a database row as the fact of the response
RowToFact(row) ==
    [fact_id |-> row.fact_id, kind |-> row.kind,
     scope |-> [repo |-> row.repo, commit |-> row.commit,
                path |-> OrNull(row.path), symbol |-> OrNull(row.symbol)],
     inputs_hash |-> row.inputs_hash, payload |-> Parse(row.payload), ts |-> row.ts,
     ttl_seconds |-> OrNullNumber(row.ttl_seconds)]

\* the facts a get answers with, on the transport it arrives by
get(via, query, table) ==
    {RowToFact(r) : r \in IF via = "http" THEN getFacts(table, query)
                                          ELSE mcpGetFacts(table, query)}

\* a variant of acquireLock that reports whether the name is held afterwards
acquireLockReportingHeld(table, name) ==
    LET res == InsertOrIgnore(table, "name", [name |-> name])
    IN [ok |-> \E r \in res.table : r.name = name, table |-> res.table]

\* DbManager.acquireLock
acquireLock(table, name) ==
    LET res == InsertOrIgnore(table, "name", [name |-> name])
    IN [ok |-> res.changes > 0, table |-> res.table]

\* tools.thought_lock: INSERT OR IGNORE INTO locks (name) VALUES (?)
mcpLock(table, name) ==
    LET res == InsertOrIgnore(table, "name", [name |-> name])
    IN [ok |-> res.changes > 0, table |-> res.table]

\* a variant of thought_unlock that answers RELEASED whatever was deleted
mcpUnlockAlwaysReleased(table, name) ==
    LET res == DeleteWhere(table, {r \in table : r.name = name})
    IN [ok |-> TRUE, table |-> res.table]

\* tools.thought_unlock: DELETE FROM locks WHERE name = ?
mcpUnlock(table, name) ==
    LET res == DeleteWhere(table, {r \in table : r.name = name})
    IN [ok |-> res.changes > 0, table |-> res.table]

\* a variant of releaseLock that reports the row without deleting it
releaseLockKeepingRow(table, name) ==
    [ok |-> \E r \in table : r.name = name, table |-> table]

\* DbManager.releaseLock
releaseLock(table, name) ==
    LET res == DeleteWhere(table, {r \in table : r.name = name})
    IN [ok |-> res.changes > 0, table |-> res.table]

\* SQLite datetime(): a time value rendered as 'YYYY-MM-DD HH:MM:SS', the
\* fraction of the second dropped; here the count of whole seconds
datetime(ms) == ms \div 1000

\* a variant of the age test that also deletes at the very second of expiry
ExpiredInclusive(r, clock) ==
    /\ r.ttl_seconds.some
    /\ datetime(r.ts + r.ttl_seconds.v * 1000) <= datetime(clock)

\* ttl_seconds IS NOT NULL
\*   AND datetime(ts, '+' || ttl_seconds || ' seconds') < datetime('now')
Expired(r, clock) ==
    /\ r.ttl_seconds.some
    /\ datetime(r.ts + r.ttl_seconds.v * 1000) < datetime(clock)

\* a variant that keeps each expired row as a tombstone without payload
cleanupExpiredFactsTombstone(table, clock) ==
    [changes |-> Cardinality({r \in table : Expired(r, clock)}),
     table |-> {IF Expired(r, clock)
                THEN [r EXCEPT !.payload = <<>>, !.ttl_seconds = NoNumber]
                ELSE r : r \in table}]

\* DbManager.cleanupExpiredFacts
cleanupExpiredFacts(table, clock) ==
    DeleteWhere(table, {r \in table : Expired(r, clock)})

(***************************************************************************)
(* Request handlers (server.ts, mcp-server.mjs)                            *)
(***************************************************************************)
maxPayloadKb == 256
ttlDays == 7
MinTtl == 60

\* Buffer.byteLength(text, "utf8"), one byte per token
ByteLength(text) == Len(text)

\* validatePayloadSize
validatePayloadSize(payload) == ByteLength(Stringify(payload)) <= maxPayloadKb * 1024

\* ttl_seconds && (ttl_seconds < 60 || ttl_seconds > maxTtl)
TtlOutOfBounds(ttl_seconds) ==
    LET maxTtl == ttlDays * 24 * 3600
    IN /\ ttl_seconds.some
       /\ ttl_seconds.v # 0
       /\ (ttl_seconds.v < MinTtl \/ ttl_seconds.v > maxTtl)

Rejected(error, table) ==
    [error |-> error, fact_id |-> <<>>, inserted |-> FALSE, table |-> table]

\* ThoughtKind of the server's request schema
ThoughtKind ==
    {<<"repo_scan">>, <<"dep_graph">>, <<"dep_score">>, <<"plan">>, <<"merge_order">>,
     <<"gate_result">>, <<"artifact">>, <<"note">>, <<"frame">>}

\* the enum of kind in the inputSchema that tools/list advertises for
\* thought_put; tools/call passes the arguments to the tool unvalidated
mcpKindEnum == ThoughtKind \cup {<<"atlas_frame">>}

\* POST /put in local mode: PutRequest.parse, then the handler's own tests
putHttp(body, table, clock) ==
    IF body.kind \notin ThoughtKind THEN Rejected("invalid_request", table)
    ELSE IF ~validatePayloadSize(body.payload) THEN Rejected("payload_too_large", table)
    ELSE IF TtlOutOfBounds(body.ttl_seconds) THEN Rejected("invalid_ttl", table)
    ELSE LET payloadHash == sha256(body.payload)
             fact_id == factId(body.kind, body.scope, body.inputs_hash, payloadHash)
             res == insertFact(table,
                        [fact_id |-> fact_id, kind |-> body.kind, scope |-> body.scope,
                         inputs_hash |-> body.inputs_hash,
                         payload_json |-> Stringify(body.payload),
                         ts |-> clock, ttl_seconds |-> body.ttl_seconds,
                         actor |-> body.actor, refs |-> body.refs])
         IN [error |-> "none", fact_id |-> fact_id, inserted |-> res.inserted,
             table |-> res.table]

\* tools.thought_put.call in local mode
putMcp(args, table, clock) ==
    IF ~validatePayloadSize(args.payload) THEN Rejected("payload_too_large", table)
    ELSE IF TtlOutOfBounds(args.ttl_seconds) THEN Rejected("invalid_ttl", table)
    ELSE LET payloadHash == mcpSha256(args.payload)
             fact_id == mcpFactId(args.kind, args.scope, args.inputs_hash, payloadHash)
             res == insertFact(table,
                        [fact_id |-> fact_id, kind |-> args.kind, scope |-> args.scope,
                         inputs_hash |-> args.inputs_hash,
                         payload_json |-> Stringify(args.payload),
                         ts |-> clock, ttl_seconds |-> args.ttl_seconds,
                         actor |-> args.actor, refs |-> args.refs])
         IN [error |-> "none", fact_id |-> fact_id, inserted |-> res.inserted,
             table |-> res.table]

\* a variant of put that first drops the stored fact of the same fact_id
putReplacing(a, table, clock) ==
    LET id == (IF a.via = "http" THEN putHttp(a, {}, 0) ELSE putMcp(a, {}, 0)).fact_id
        rest == {r \in table : r.fact_id # id}
    IN IF a.via = "http" THEN putHttp(a, rest, clock) ELSE putMcp(a, rest, clock)

\* a put request on the transport it arrives by
put(a, table, clock) ==
    IF a.via = "http" THEN putHttp(a, table, clock) ELSE putMcp(a, table, clock)

\* the fact_id a put of these arguments computes
FactIdOf(a) == put(a, {}, 0).fact_id

(***************************************************************************)
(* The frames, frames_fts and atlas_frames tables (db.ts)                  *)
(***************************************************************************)
\* the index of the first quote token of text at or after position i
NextQuote(text, i) == Min({j \in i..Len(text) : text[j] = "\""})

\* the string literals of a JSON text from position i on, in order
RECURSIVE StringLiterals(_, _)
StringLiterals(text, i) ==
    IF ~\E j \in i..Len(text) : text[j] = "\"" THEN <<>>
    ELSE LET open == NextQuote(text, i)
             close == NextQuote(text, open + 1)
         IN <<SubSeq(text, open + 1, close - 1)>> \o StringLiterals(text, close + 1)

\* JSON.parse of the text of an array of strings
ParseArray(text) == StringLiterals(text, 1)

\* JSON.parse of the text of an object whose values are strings
ParseObject(text) ==
    LET lits == StringLiterals(text, 1)
    IN JObj([i \in 1..(Len(lits) \div 2) |-> <<lits[2 * i - 1][1], JStr(lits[2 * i])>>])

\* the rowid SQLite gives a new row of a table without INTEGER PRIMARY KEY
NextRowid(table) ==
    IF table = {} THEN 1 ELSE 1 + Max({r.rowid : r \in table})

\* the column values insertFrame binds
FrameRow(frame, rowid) ==
    [rowid |-> rowid,
     id |-> frame.id,
     timestamp |-> frame.timestamp,
     branch |-> frame.branch,
     jira |-> OrNull(frame.jira),
     module_scope |-> StringifyArray(frame.module_scope),
     summary_caption |-> frame.summary_caption,
     reference_point |-> frame.reference_point,
     status_snapshot |-> Stringify(frame.status_snapshot),
     keywords |-> IF frame.keywords.some
                  THEN Some(StringifyArray(frame.keywords.v)) ELSE None,
     atlas_frame_id |-> OrNull(frame.atlas_frame_id)]

\* trigger frames_ai: the index entry of a new row
FtsEntry(row) ==
    [rowid |-> row.rowid, id |-> row.id, reference_point |-> row.reference_point,
     summary_caption |-> row.summary_caption, keywords |-> row.keywords]

\* a variant of insertFrame that keeps the stored row of an existing id
insertFrameIgnoring(table, fts, frame) ==
    IF \E r \in table : r.id = frame.id
    THEN [ok |-> FALSE, table |-> table, fts |-> fts]
    ELSE LET row == FrameRow(frame, NextRowid(table))
         IN [ok |-> TRUE, table |-> table \cup {row}, fts |-> fts \cup {FtsEntry(row)}]

\* DbManager.insertFrame: INSERT OR REPLACE deletes the row that holds the
\* id (trigger frames_ad does not fire for it: recursive triggers are off),
\* then inserts the new row under a fresh rowid, which fires frames_ai
insertFrame(table, fts, frame) ==
    LET row == FrameRow(frame, NextRowid(table))
    IN [ok |-> TRUE,
        table |-> {r \in table : r.id # frame.id} \cup {row},
        fts |-> fts \cup {FtsEntry(row)}]

\* a row mapped to a Frame, as getFrameById and searchFrames do
RowToFrame(row) ==
    [id |-> row.id,
     timestamp |-> row.timestamp,
     branch |-> row.branch,
     jira |-> OrNull(row.jira),
     module_scope |-> ParseArray(row.module_scope),
     summary_caption |-> row.summary_caption,
     reference_point |-> row.reference_point,
     status_snapshot |-> ParseObject(row.status_snapshot),
     keywords |-> IF row.keywords.some THEN Some(ParseArray(row.keywords.v)) ELSE None,
     atlas_frame_id |-> OrNull(row.atlas_frame_id)]

\* absence of a Frame (null)
NoFrame ==
    [id |-> <<>>, timestamp |-> 0, branch |-> <<>>, jira |-> None,
     module_scope |-> <<>>, summary_caption |-> <<>>, reference_point |-> <<>>,
     status_snapshot |-> JObj(<<>>), keywords |-> None, atlas_frame_id |-> None]

\* DbManager.getFrameById: the Frames of the rows that hold the id (one at
\* most, id being the primary key)
getFrameById(table, id) == {RowToFrame(r) : r \in {x \in table : x.id = id}}

\* the tokens the index holds for an entry: those of reference_point, of
\* summary_caption and of the string literals of the keywords text
FtsTokens(entry) ==
    Range(entry.reference_point) \cup Range(entry.summary_caption) \cup
    (IF entry.keywords.some
     THEN UNION {Range(lit) : lit \in Range(StringLiterals(entry.keywords.v, 1))}
     ELSE {})

\* frames_fts MATCH text: every term of the text occurs in the entry
FtsMatch(entry, text) == Range(text) \subseteq FtsTokens(entry)

\* the rows the WHERE clause of searchFrames selects
SearchRows(table, fts, query) ==
    IF query.reference_point.some /\ query.reference_point.v # <<>>
    THEN {r \in table :
            /\ \E e \in fts : e.rowid = r.rowid /\ FtsMatch(e, query.reference_point.v)
            /\ (query.jira.some /\ query.jira.v # <<>>) => r.jira = query.jira
            /\ (query.branch.some /\ query.branch.v # <<>>) => r.branch = query.branch.v}
    ELSE {r \in table :
            /\ (query.jira.some /\ query.jira.v # <<>>) => r.jira = query.jira
            /\ (query.branch.some /\ query.branch.v # <<>>) => r.branch = query.branch.v}

\* a variant of the ordering that lists the earliest row first
OrderByTimestampAsc(rows) ==
    {s \in [1..Cardinality(rows) -> rows] :
        /\ \A i \in DOMAIN s : \A j \in DOMAIN s : i # j => s[i] # s[j]
        /\ \A i \in DOMAIN s : \A j \in DOMAIN s : i < j => s[i].timestamp <= s[j].timestamp}

\* ORDER BY timestamp DESC: every order of the rows in which no row precedes
\* a row of a later timestamp (SQLite leaves the order of equal keys open)
OrderByTimestampDesc(rows) ==
    {s \in [1..Cardinality(rows) -> rows] :
        /\ \A i \in DOMAIN s : \A j \in DOMAIN s : i # j => s[i] # s[j]
        /\ \A i \in DOMAIN s : \A j \in DOMAIN s : i < j => s[i].timestamp >= s[j].timestamp}

\* LIMIT n (no limit when n is 0)
Limit(s, n) == IF n = 0 \/ n >= Len(s) THEN s ELSE SubSeq(s, 1, n)

\* DbManager.searchFrames: the arrays of Frames the query can return
searchFrames(table, fts, query) ==
    {[i \in 1..Len(Limit(s, query.limit)) |-> RowToFrame(s[i])] :
        s \in OrderByTimestampDesc(SearchRows(table, fts, query))}

\* an Atlas Frame as a JSON object
AtlasFrame(atlas_frame_id, frame_id, atlas_timestamp, reference_module, fold_radius) ==
    JObj(<< <<"atlas_frame_id", JStr(atlas_frame_id)>>,
            <<"frame_id", JStr(frame_id)>>,
            <<"atlas_timestamp", JStr(atlas_timestamp)>>,
            <<"reference_module", JStr(reference_module)>>,
            <<"fold_radius", JNum(fold_radius)>> >>)

\* obj.key of a JSON object
Field(obj, key) == obj.kv[Member(obj, key)][2]

\* DbManager.insertAtlasFrame: INSERT OR REPLACE under PRIMARY KEY atlas_frame_id
insertAtlasFrame(table, atlasFrame, clock) ==
    LET row == [atlas_frame_id |-> Field(atlasFrame, "atlas_frame_id").s,
                frame_id |-> Field(atlasFrame, "frame_id").s,
                atlas_timestamp |-> Field(atlasFrame, "atlas_timestamp").s,
                reference_module |-> Field(atlasFrame, "reference_module").s,
                fold_radius |-> Field(atlasFrame, "fold_radius").n,
                atlas_json |-> Stringify(atlasFrame),
                created_at |-> clock]
    IN [ok |-> TRUE,
        table |-> {r \in table : r.atlas_frame_id # row.atlas_frame_id} \cup {row}]

\* JSON.parse of the text of an Atlas Frame: four string members, then the
\* number fold_radius
ParseAtlasFrame(text) ==
    LET lits == StringLiterals(text, 1)
        digits == text[Len(text) - 1]
    IN AtlasFrame(lits[2], lits[4], lits[6], lits[8],
                  CHOOSE n \in 0..5 : ToString(n) = digits)

\* DbManager.getAtlasFrameById: null when no row holds the id
getAtlasFrameById(table, atlasFrameId) ==
    LET rows == {r \in table : r.atlas_frame_id = atlasFrameId}
    IN IF rows = {} THEN None
       ELSE Some(ParseAtlasFrame((CHOOSE r \in rows : TRUE).atlas_json))

\* DbManager.getAtlasFrameByFrameId: the Atlas Frames the call can return,
\* null when no row holds the frame_id (the statement has no ORDER BY, and
\* get() takes the first row)
getAtlasFrameByFrameId(table, frameId) ==
    LET rows == {r \in table : r.frame_id = frameId}
    IN IF rows = {} THEN {None}
       ELSE {Some(ParseAtlasFrame(r.atlas_json)) : r \in rows}

\* what a recall returns
Recalled(error, frame, atlas_frame) ==
    [error |-> error, frame |-> frame, atlas_frame |-> atlas_frame]

\* x is supplied and truthy
Given(x) == x.some /\ x.v # <<>>

\* a variant of the resolution that tries reference_point before frame_id
ResolveFrameReferenceFirst(table, fts, query) ==
    IF Given(query.reference_point)
    THEN {fs[1] : fs \in {x \in searchFrames(table, fts,
                     [reference_point |-> query.reference_point, jira |-> None,
                      branch |-> None, limit |-> 1]) : x # <<>>}}
    ELSE IF Given(query.frame_id) THEN getFrameById(table, query.frame_id.v)
    ELSE IF Given(query.jira)
    THEN {fs[1] : fs \in {x \in searchFrames(table, fts,
                     [reference_point |-> None, jira |-> query.jira,
                      branch |-> None, limit |-> 1]) : x # <<>>}}
    ELSE {}

\* the Frames the priority order frame_id > reference_point > jira resolves
\* to: the Frame of the id, or the first Frame of a search with LIMIT 1
ResolveFrame(table, fts, query) ==
    IF Given(query.frame_id) THEN getFrameById(table, query.frame_id.v)
    ELSE IF Given(query.reference_point)
    THEN {fs[1] : fs \in {x \in searchFrames(table, fts,
                     [reference_point |-> query.reference_point, jira |-> None,
                      branch |-> None, limit |-> 1]) : x # <<>>}}
    ELSE IF Given(query.jira)
    THEN {fs[1] : fs \in {x \in searchFrames(table, fts,
                     [reference_point |-> None, jira |-> query.jira,
                      branch |-> None, limit |-> 1]) : x # <<>>}}
    ELSE {}

\* the Atlas Frame linked from a Frame, null when the link is absent or
\* names no stored row
LinkedAtlasFrame(atlas, frame) ==
    IF Given(frame.atlas_frame_id)
    THEN getAtlasFrameById(atlas, frame.atlas_frame_id.v)
    ELSE None

\* a variant of recallFrame that fails when the linked Atlas Frame is missing
recallFrameRequiringAtlas(table, fts, atlas, query) ==
    LET found == ResolveFrame(table, fts, query)
    IN IF found = {} THEN {Recalled("not_found", NoFrame, None)}
       ELSE {IF Given(frame.atlas_frame_id) /\ ~LinkedAtlasFrame(atlas, frame).some
             THEN Recalled("not_found", NoFrame, None)
             ELSE Recalled("none", frame, LinkedAtlasFrame(atlas, frame)) : frame \in found}

\* DbManager.recallFrame: the results the call can return (null as not_found)
recallFrame(table, fts, atlas, query) ==
    LET found == ResolveFrame(table, fts, query)
    IN IF found = {} THEN {Recalled("not_found", NoFrame, None)}
       ELSE {Recalled("none", frame, LinkedAtlasFrame(atlas, frame)) : frame \in found}

\* tools.thought_recall.call: the same resolution by its own statements; it
\* throws when no criterion is supplied and when no Frame matches
mcpRecall(table, fts, atlas, args) ==
    IF ~Given(args.reference_point) /\ ~Given(args.jira) /\ ~Given(args.frame_id)
    THEN {Recalled("no_criteria", NoFrame, None)}
    ELSE LET found == ResolveFrame(table, fts, args)
         IN IF found = {} THEN {Recalled("not_found", NoFrame, None)}
            ELSE {Recalled("none", frame, LinkedAtlasFrame(atlas, frame)) :
                    frame \in found}

(***************************************************************************)
(* Inputs of the frame operations                                          *)
(***************************************************************************)
MaxFrameInserts == 2

FrameIds == {<<"f1">>, <<"f2">>}
Timestamps == {1, 2}
Ticket == <<"T-1">>
AtlasId == <<"a1">>

\* what a Frame says besides id and timestamp: its reference point, its
\* ticket and its link (supplied, absent, or supplied as the empty string)
FrameVariants ==
    {[reference_point |-> <<"alpha">>, jira |-> Some(Ticket), atlas_frame_id |-> Some(AtlasId)],
     [reference_point |-> <<"beta">>, jira |-> None, atlas_frame_id |-> None],
     [reference_point |-> <<"alpha">>, jira |-> Some(<<>>), atlas_frame_id |-> Some(<<>>)]}

Frames ==
    {[id |-> id, timestamp |-> ts, branch |-> <<"main">>, jira |-> v.jira,
      module_scope |-> <<<<"ui">>, <<"core">>>>, summary_caption |-> <<"caption">>,
      reference_point |-> v.reference_point,
      status_snapshot |-> JObj(<< <<"next_action", JStr(<<"review">>)>> >>),
      keywords |-> None, atlas_frame_id |-> v.atlas_frame_id] :
        id \in FrameIds, ts \in Timestamps, v \in FrameVariants}

\* the Atlas Frame generated for Frame f1
TheAtlasFrame == AtlasFrame(AtlasId, <<"f1">>, <<"t1">>, <<"ui">>, 1)

\* recall queries: each criterion supplied or not
RecallQueries ==
    [frame_id : {None} \cup {Some(id) : id \in FrameIds},
     reference_point : {None, Some(<<"alpha">>), Some(<<"beta">>)},
     jira : {None, Some(Ticket)}]

NoRecall ==
    [via |-> "none", query |-> [frame_id |-> None, reference_point |-> None, jira |-> None],
     result |-> Recalled("not_called", NoFrame, None)]

\* empty frames tables, nothing recalled
FrameInit ==
    /\ frames = {}
    /\ frames_fts = {}
    /\ atlas_frames = {}
    /\ lastFrame = [id \in FrameIds |-> [some |-> FALSE, v |-> NoFrame]]
    /\ nframes = 0
    /\ fr_out = NoRecall

(***************************************************************************)
(* Callers and their requests                                              *)
(***************************************************************************)
Callers == {"c1", "c2"}
LockNames == {"x", "y"}
MaxCalls == 2
MaxLockCalls == 4
\* the instants, in milliseconds, at which the clock is observed
Instants == {0, 60000, 60500, 61000}

Kinds == {<<"note">>}
Scope1 == [repo |-> <<"r">>, commit |-> <<"c1">>, path |-> None, symbol |-> None]
Scope2 == [repo |-> <<"r">>, commit |-> <<"c2">>, path |-> None, symbol |-> None]
Scopes == {Scope1, Scope2}
PayloadFlat == JObj(<< <<"a", JNum(1)>> >>)
PayloadNested1 == JObj(<< <<"a", JObj(<< <<"b", JNum(1)>> >>)>> >>)
PayloadNested2 == JObj(<< <<"a", JObj(<< <<"b", JNum(2)>> >>)>> >>)
Payloads == {PayloadFlat, PayloadNested1, PayloadNested2}
Ttls == {NoNumber, Some(MinTtl)}
Transports == {"http", "mcp"}

PutRequests ==
    [via : Transports, kind : Kinds, scope : Scopes, inputs_hash : {<<"h1">>},
     payload : Payloads, ttl_seconds : Ttls, actor : {None}, refs : {None}]

\* the number of components in which two put requests differ
Differences(a, b) ==
    Cardinality({f \in {"via", "kind", "scope", "inputs_hash", "payload", "ttl_seconds"} :
                    a[f] # b[f]})

\* the query for the repo, commit and kind of a put request
QueryFor(a) ==
    [repo |-> a.scope.repo, commit |-> a.scope.commit, kind |-> a.kind,
     path |-> None, symbol |-> None, inputs_hash |-> None]

NoPut ==
    [via |-> "http", kind |-> <<>>, scope |-> Scope1, inputs_hash |-> <<>>,
     payload |-> JNum(0), ttl_seconds |-> NoNumber, actor |-> None, refs |-> None]
NoQuery == QueryFor(NoPut)
NoRequest == [id |-> 0, op |-> "none", put |-> NoPut, query |-> NoQuery, name |-> ""]
NoResponse ==
    [op |-> "none", error |-> "none", fact_id |-> <<>>, inserted |-> FALSE,
     rows |-> {}, ok |-> FALSE, seq |-> 0, at |-> 0, existed |-> FALSE,
     row_ts |-> 0, conc |-> {}]

\* the server processes that open the database, each with its own timer
Servers == {"s1", "s2"}

\* no collection run of a server is under way
NoRun == [state |-> "idle", started |-> 0, snapshot |-> {}]

\* no operation has been executed one at a time
NoOp ==
    [n |-> 0, name |-> "none", caller |-> "", lock |-> "", put |-> NoPut,
     error |-> "none", inserted |-> FALSE, fact_id |-> <<>>, ok |-> FALSE,
     since |-> [l \in LockNames |-> 0], taker |-> [l \in LockNames |-> ""],
     digests |-> <<>>, via |-> "", query |-> NoQuery, rows |-> {},
     atlas |-> None, by_frame |-> None, by_recall |-> None, timer |-> "armed",
     runs |-> [s \in Servers |-> NoRun], existed |-> FALSE,
     gone |-> {}, back |-> {}]

\* no collection has run at the current instant
NoCollection == [at |-> -1, deleted |-> 0]

\* the empty store of a run
StoreEmpty ==
    /\ facts = {}
    /\ locks = {}
    /\ now = 0
    /\ pc = [c \in Callers |-> "idle"]
    /\ req = [c \in Callers |-> NoRequest]
    /\ resp = [c \in Callers |-> NoResponse]
    /\ ncalls = 0
    /\ nhandled = 0
    /\ lockLog = <<>>
    /\ gc = NoCollection
    /\ op = NoOp

\* no text on stdin
NoStdio ==
    [stdin |-> <<>>, arrived |-> <<>>, buffer |-> <<>>, lines |-> <<>>, handled |-> <<>>,
     carried |-> FALSE]

StoreInit ==
    /\ StoreEmpty
    /\ stdio = NoStdio

\* extractNeighborhood has not been called
NotCalled ==
    [error |-> "not_called", seed |-> 0, seed_modules |-> <<>>,
     fold_radius |-> 0, modules |-> <<>>]

NbIdle ==
    /\ nb_in = [seedModules |-> <<>>, adjacencyGraph |-> <<>>, policy |-> <<>>]
    /\ nb_radius = 0
    /\ nb_out = NotCalled

\* a run submits a put request of PayloadNested1 on Scope1 with the minimal
\* TTL and a second one that differs from it in at most one component
Init ==
    /\ inputs \in {<<a, b>> : a \in {r \in PutRequests : /\ r.scope = Scope1
                                                          /\ r.payload = PayloadNested1
                                                          /\ r.ttl_seconds = Some(MinTtl)},
                               b \in PutRequests}
    /\ Differences(inputs[1], inputs[2]) <= 1
    /\ StoreInit
    /\ NbIdle
    /\ FrameInit

\* requests of the other callers that are in flight while c's is executed
InFlight(c) == {req[d].id : d \in {d \in Callers \ {c} : pc[d] = "pending"}}

\* (the callers being interchangeable, c1 names the one that calls first)
Issue(c, r) ==
    /\ pc[c] # "pending"
    /\ (ncalls = 0 => c = "c1")
    /\ ncalls' = ncalls + 1
    /\ req' = [req EXCEPT ![c] = [r EXCEPT !.id = ncalls + 1]]
    /\ resp' = [resp EXCEPT ![c] = NoResponse]
    /\ pc' = [pc EXCEPT ![c] = "pending"]

\* a caller submits one of the put requests of the run
CallPut(c, i) ==
    /\ ncalls < MaxCalls
    /\ Issue(c, [NoRequest EXCEPT !.op = "put", !.put = inputs[i]])
    /\ UNCHANGED <<stdio, inputs, facts, locks, now, nhandled, lockLog, gc, op, nbVars, frameVars>>

\* a caller queries the repo, commit and kind of the first put request
CallGet(c) ==
    /\ ncalls < MaxCalls
    /\ Issue(c, [NoRequest EXCEPT !.op = "get", !.query = QueryFor(inputs[1])])
    /\ UNCHANGED <<stdio, inputs, facts, locks, now, nhandled, lockLog, gc, op, nbVars, frameVars>>

\* POST /put, tools.thought_put: the whole handler, its INSERT OR IGNORE included
HandlePut(c) ==
    /\ pc[c] = "pending"
    /\ req[c].op = "put"
    /\ LET out == put(req[c].put, facts, now)
           stored == {r \in out.table : r.fact_id = out.fact_id}
       IN /\ facts' = out.table
          /\ resp' = [resp EXCEPT ![c] =
                 [NoResponse EXCEPT
                    !.op = "put", !.error = out.error, !.fact_id = out.fact_id,
                    !.inserted = out.inserted, !.seq = nhandled + 1, !.at = now,
                    !.existed = \E r \in facts : r.fact_id = out.fact_id,
                    !.row_ts = IF stored = {} THEN 0
                               ELSE (CHOOSE r \in stored : TRUE).ts,
                    !.conc = InFlight(c)]]
    /\ nhandled' = nhandled + 1
    /\ pc' = [pc EXCEPT ![c] = "done"]
    /\ UNCHANGED <<stdio, inputs, locks, now, req, ncalls, lockLog, gc, op, nbVars, frameVars>>

\* POST /get: the rows DbManager.getFacts selects
HandleGet(c) ==
    /\ pc[c] = "pending"
    /\ req[c].op = "get"
    /\ resp' = [resp EXCEPT ![c] =
           [NoResponse EXCEPT !.op = "get", !.rows = getFacts(facts, req[c].query),
                              !.seq = nhandled + 1, !.at = now, !.conc = InFlight(c)]]
    /\ nhandled' = nhandled + 1
    /\ pc' = [pc EXCEPT ![c] = "done"]
    /\ UNCHANGED <<stdio, inputs, facts, locks, now, req, ncalls, lockLog, gc, op, nbVars, frameVars>>

\* a variant of the collection that also frees the locks, as a lease would
RunGarbageCollectionWithLeases ==
    LET out == cleanupExpiredFacts(facts, now)
    IN /\ facts' = out.table
       /\ locks' = {}
       /\ gc' = [at |-> now, deleted |-> out.changes]
       /\ UNCHANGED <<stdio, inputs, now, pc, req, resp, ncalls, nhandled, lockLog, op, nbVars, frameVars>>

\* runGarbageCollection: at startup and on every firing of the interval timer
RunGarbageCollection ==
    LET out == cleanupExpiredFacts(facts, now)
    IN /\ facts' = out.table
       /\ gc' = [at |-> now, deleted |-> out.changes]
       /\ UNCHANGED <<stdio, inputs, locks, now, pc, req, resp, ncalls, nhandled, lockLog, op, nbVars, frameVars>>

\* time passes: the clock reaches the next observed instant (the instants
\* are at least half a second apart, a request is in flight for far less)
Tick(t) ==
    /\ t > now
    /\ \A c \in Callers : pc[c] # "pending"
    /\ now' = t
    /\ gc' = NoCollection
    /\ UNCHANGED <<stdio, inputs, facts, locks, pc, req, resp, ncalls, nhandled, lockLog, op, nbVars, frameVars>>

Next ==
    \/ \E c \in Callers : \E i \in 1..2 : CallPut(c, i)
    \/ \E c \in Callers : CallGet(c)
    \/ \E c \in Callers : HandlePut(c)
    \/ \E c \in Callers : HandleGet(c)
    \/ RunGarbageCollection
    \/ \E t \in Instants : Tick(t)

Spec == Init /\ [][Next]_vars

(***************************************************************************)
(* SpecLock: the callers contend for the advisory locks                    *)
(***************************************************************************)
InitLock ==
    /\ inputs = <<NoPut, NoPut>>
    /\ StoreInit
    /\ NbIdle
    /\ FrameInit

CallLock(c, name) ==
    /\ ncalls < MaxLockCalls
    /\ Issue(c, [NoRequest EXCEPT !.op = "lock", !.name = name])
    /\ UNCHANGED <<stdio, inputs, facts, locks, now, nhandled, lockLog, gc, op, nbVars, frameVars>>

CallUnlock(c, name) ==
    /\ ncalls < MaxLockCalls
    /\ Issue(c, [NoRequest EXCEPT !.op = "unlock", !.name = name])
    /\ UNCHANGED <<stdio, inputs, facts, locks, now, nhandled, lockLog, gc, op, nbVars, frameVars>>

LogEntry(c, ok) ==
    [caller |-> c, id |-> req[c].id, op |-> req[c].op, name |-> req[c].name,
     ok |-> ok, conc |-> InFlight(c)]

\* POST /lock, tools.thought_lock: db.acquireLock(name)
HandleLock(c) ==
    /\ pc[c] = "pending"
    /\ req[c].op = "lock"
    /\ LET out == acquireLock(locks, req[c].name)
       IN /\ locks' = out.table
          /\ resp' = [resp EXCEPT ![c] =
                 [NoResponse EXCEPT !.op = "lock", !.ok = out.ok,
                                    !.seq = nhandled + 1, !.at = now,
                                    !.conc = InFlight(c)]]
          /\ lockLog' = Append(lockLog, LogEntry(c, out.ok))
    /\ nhandled' = nhandled + 1
    /\ pc' = [pc EXCEPT ![c] = "done"]
    /\ UNCHANGED <<stdio, inputs, facts, now, req, ncalls, gc, op, nbVars, frameVars>>

\* POST /unlock, tools.thought_unlock: db.releaseLock(name)
HandleUnlock(c) ==
    /\ pc[c] = "pending"
    /\ req[c].op = "unlock"
    /\ LET out == releaseLock(locks, req[c].name)
       IN /\ locks' = out.table
          /\ resp' = [resp EXCEPT ![c] =
                 [NoResponse EXCEPT !.op = "unlock", !.ok = out.ok,
                                    !.seq = nhandled + 1, !.at = now,
                                    !.conc = InFlight(c)]]
          /\ lockLog' = Append(lockLog, LogEntry(c, out.ok))
    /\ nhandled' = nhandled + 1
    /\ pc' = [pc EXCEPT ![c] = "done"]
    /\ UNCHANGED <<stdio, inputs, facts, now, req, ncalls, gc, op, nbVars, frameVars>>

NextLock ==
    \/ \E c \in Callers : \E name \in LockNames : CallLock(c, name)
    \/ \E c \in Callers : \E name \in LockNames : CallUnlock(c, name)
    \/ \E c \in Callers : HandleLock(c)
    \/ \E c \in Callers : HandleUnlock(c)

SpecLock == InitLock /\ [][NextLock]_vars

(***************************************************************************)
(* SpecFrame: Frames and Atlas Frames are stored and recalled              *)
(***************************************************************************)
InitFrame ==
    /\ inputs = <<NoPut, NoPut>>
    /\ StoreInit
    /\ NbIdle
    /\ FrameInit

\* a caller stores a Frame (a run ends with its recall)
InsertFrame(frame) ==
    /\ fr_out = NoRecall
    /\ nframes < MaxFrameInserts
    /\ LET out == insertFrame(frames, frames_fts, frame)
       IN /\ frames' = out.table
          /\ frames_fts' = out.fts
    /\ lastFrame' = [lastFrame EXCEPT ![frame.id] = [some |-> TRUE, v |-> frame]]
    /\ nframes' = nframes + 1
    /\ UNCHANGED <<stdio, atlas_frames, fr_out, storeVars, nbVars>>

\* a caller stores the Atlas Frame
InsertAtlasFrame ==
    /\ fr_out = NoRecall
    /\ atlas_frames' = insertAtlasFrame(atlas_frames, TheAtlasFrame, now).table
    /\ UNCHANGED <<stdio, frames, frames_fts, lastFrame, nframes, fr_out, storeVars, nbVars>>

\* a caller recalls through DbManager.recallFrame
RecallDb(query) ==
    /\ fr_out = NoRecall
    /\ \E result \in recallFrame(frames, frames_fts, atlas_frames, query) :
          fr_out' = [via |-> "db", query |-> query, result |-> result]
    /\ UNCHANGED <<stdio, frames, frames_fts, atlas_frames, lastFrame, nframes, storeVars, nbVars>>

\* a caller recalls through the MCP tool thought_recall
RecallMcp(args) ==
    /\ fr_out = NoRecall
    /\ \E result \in mcpRecall(frames, frames_fts, atlas_frames, args) :
          fr_out' = [via |-> "mcp", query |-> args, result |-> result]
    /\ UNCHANGED <<stdio, frames, frames_fts, atlas_frames, lastFrame, nframes, storeVars, nbVars>>

NextFrame ==
    \/ \E frame \in Frames : InsertFrame(frame)
    \/ InsertAtlasFrame
    \/ \E query \in RecallQueries : RecallDb(query)
    \/ \E args \in RecallQueries : RecallMcp(args)

SpecFrame == InitFrame /\ [][NextFrame]_vars

(***************************************************************************)
(* Put requests of every TTL, actor and refs, executed one at a time       *)
(* (a handler runs to completion: better-sqlite3 is synchronous)           *)
(***************************************************************************)
MaxPuts == 2
\* config.ttlDays * 24 * 3600
MaxTtlSeconds == ttlDays * 24 * 3600
WideTtls ==
    {NoNumber} \cup
    {Some(t) : t \in {-1, 0, MinTtl - 1, MinTtl, MaxTtlSeconds, MaxTtlSeconds + 1}}
Actor1 == Some(JStr(<<"u1">>))
Refs1 == Some(<< <<"r1">> >>)
BasePut ==
    [via |-> "http", kind |-> <<"note">>, scope |-> Scope1, inputs_hash |-> <<"h1">>,
     payload |-> PayloadNested1, ttl_seconds |-> NoNumber, actor |-> None,
     refs |-> None]

\* the same kind, scope, inputs_hash and payload on either transport: with
\* every TTL, and with the minimal TTL and an actor, refs or both
WidePuts ==
    {[BasePut EXCEPT !.via = v, !.ttl_seconds = t] : v \in Transports, t \in WideTtls}
    \cup
    {[BasePut EXCEPT !.via = v, !.ttl_seconds = Some(MinTtl), !.actor = a, !.refs = r] :
        v \in Transports, a \in {None, Actor1}, r \in {None, Refs1}}

InitPut ==
    /\ inputs = <<NoPut, NoPut>>
    /\ StoreInit
    /\ NbIdle
    /\ FrameInit

\* POST /put, tools.thought_put: the whole handler
PutOne(a) ==
    /\ op.n < MaxPuts
    /\ LET out == put(a, facts, now)
       IN /\ facts' = out.table
          /\ op' = [NoOp EXCEPT !.n = op.n + 1, !.name = "put", !.put = a,
                                !.error = out.error, !.inserted = out.inserted,
                                !.fact_id = out.fact_id]
    /\ UNCHANGED <<stdio, inputs, locks, now, pc, req, resp, ncalls, nhandled, lockLog, gc, nbVars, frameVars>>

NextPut ==
    \/ \E a \in WidePuts : PutOne(a)
    \/ RunGarbageCollection
    \/ \E t \in Instants : Tick(t)

SpecPut == InitPut /\ [][NextPut]_vars

(***************************************************************************)
(* The content hash applied to payloads in every key order                 *)
(***************************************************************************)
MaxDepth == 2

\* objects nested d deep: a nested value under "a" next to a number under
\* "b" or under "kind" ("kind" is no top-level key of an object whose own
\* second key is "b")
RECURSIVE HashLevel(_)
HashLevel(d) ==
    IF d = 0 THEN {JNum(1), JNum(2)}
    ELSE {JObj(<< <<"a", x>>, <<k, JNum(n)>> >>) :
             x \in HashLevel(d - 1), k \in {"b", "kind"}, n \in {1, 2}}

HashValues == UNION {HashLevel(d) : d \in 1..MaxDepth}

\* the values structurally equal to v: the same members, at every depth,
\* with the keys of each object listed in either order
RECURSIVE Reorderings(_)
Reorderings(v) ==
    IF v.t # "obj" THEN {v}
    ELSE {JObj(IF swap THEN << <<v.kv[2][1], y>>, <<v.kv[1][1], x>> >>
                       ELSE << <<v.kv[1][1], x>>, <<v.kv[2][1], y>> >>) :
             x \in Reorderings(v.kv[1][2]), y \in Reorderings(v.kv[2][2]),
             swap \in BOOLEAN}

\* a run hashes the payloads of two put requests that are structurally equal
InitHash ==
    /\ \E u \in HashValues : \E v \in Reorderings(u) : \E w \in Reorderings(u) :
          inputs = <<[BasePut EXCEPT !.payload = v], [BasePut EXCEPT !.payload = w]>>
    /\ StoreInit
    /\ NbIdle
    /\ FrameInit

HashWith(by, obj) ==
    CASE by = "server" -> sha256(obj)
      [] by = "sdk" -> sdkSha256(obj)
      [] by = "mcp" -> mcpSha256(obj)

\* sha256(payload) of the server, of the SDK or of the MCP server
HashPayloads(by) ==
    /\ op.n = 0
    /\ op' = [NoOp EXCEPT !.n = 1, !.name = by,
                          !.digests = <<HashWith(by, inputs[1].payload),
                                        HashWith(by, inputs[2].payload)>>]
    /\ UNCHANGED <<stdio, inputs, facts, locks, now, pc, req, resp, ncalls, nhandled, lockLog, gc, nbVars, frameVars>>

NextHash ==
    \/ HashPayloads("server")
    \/ HashPayloads("sdk")
    \/ HashPayloads("mcp")

SpecHash == InitHash /\ [][NextHash]_vars

(***************************************************************************)
(* Get queries over facts stored with and without path and symbol          *)
(***************************************************************************)
MaxGetPuts == 2

\* an optional string: omitted, empty, or a name
GetPaths == {None, Some(<<>>), Some(<<"p">>)}
GetSymbols == {None, Some(<<"s">>)}
GetHashes == {<<"h1">>, <<"h2">>}

\* put requests on commit c1 with every path, symbol and inputs_hash
GetPuts ==
    {[BasePut EXCEPT !.via = v, !.inputs_hash = h,
                     !.scope = [repo |-> <<"r">>, commit |-> <<"c1">>, path |-> p,
                                symbol |-> s]] :
        v \in Transports, h \in GetHashes, p \in GetPaths, s \in GetSymbols}

\* get requests of the same repo and kind
GetQueries ==
    [repo : {<<"r">>}, commit : {<<"c1">>, <<"c2">>}, kind : Kinds, path : GetPaths,
     symbol : GetSymbols, inputs_hash : {None} \cup {Some(h) : h \in GetHashes}]

\* the get request that carries a put's own repo, commit, kind, path, symbol
\* and inputs_hash
OwnQuery(a) ==
    [repo |-> a.scope.repo, commit |-> a.scope.commit, kind |-> a.kind,
     path |-> a.scope.path, symbol |-> a.scope.symbol,
     inputs_hash |-> Some(a.inputs_hash)]

InitGet ==
    /\ inputs = <<NoPut, NoPut>>
    /\ StoreInit
    /\ NbIdle
    /\ FrameInit

\* POST /put, tools.thought_put (a run ends with its get)
GetPutFact(a) ==
    /\ op.name # "get"
    /\ op.n < MaxGetPuts
    /\ LET out == put(a, facts, now)
       IN /\ facts' = out.table
          /\ op' = [NoOp EXCEPT !.n = op.n + 1, !.name = "put", !.put = a,
                                !.error = out.error, !.inserted = out.inserted,
                                !.fact_id = out.fact_id]
    /\ UNCHANGED <<stdio, inputs, locks, now, pc, req, resp, ncalls, nhandled, lockLog, gc, nbVars, frameVars>>

\* POST /get, tools.thought_get: the answer, next to the last put
GetFacts(via, query) ==
    /\ op.name # "get"
    /\ op' = [op EXCEPT !.name = "get", !.via = via, !.query = query,
                        !.rows = get(via, query, facts)]
    /\ UNCHANGED <<stdio, inputs, facts, locks, now, pc, req, resp, ncalls, nhandled, lockLog, gc, nbVars, frameVars>>

NextGet ==
    \/ \E a \in GetPuts : GetPutFact(a)
    \/ \E via \in Transports : \E query \in GetQueries : GetFacts(via, query)

SpecGet == InitGet /\ [][NextGet]_vars

(***************************************************************************)
(* Atlas Frames stored, replaced and looked up by Frame                    *)
(***************************************************************************)
MaxAtlasInserts == 2

AtlasIds == {<<"a1">>, <<"a2">>}

\* Atlas Frames of Frame f1 under either id, around either module
AtlasFrames ==
    {AtlasFrame(id, <<"f1">>, <<"t1">>, m, 1) : id \in AtlasIds, m \in {<<"ui">>, <<"core">>}}

\* Frame f1 without a link and linked to either Atlas Frame
LinkFrames ==
    {[f EXCEPT !.atlas_frame_id = l] :
        f \in {x \in Frames : /\ x.id = <<"f1">> /\ x.timestamp = 1
                              /\ x.reference_point = <<"beta">>},
        l \in {None} \cup {Some(id) : id \in AtlasIds}}

\* the module ids of the policy (lexmap.policy.json)
PolicyModules == {<<"ui">>, <<"core">>}

\* Frame f2 with a module_scope of policy modules, and with one that names
\* "ux", which is no module of the policy
ScopeFrames ==
    {[f EXCEPT !.module_scope = ms] :
        f \in {x \in Frames : /\ x.id = <<"f2">> /\ x.timestamp = 2
                              /\ x.reference_point = <<"beta">>},
        ms \in {<< <<"ui">> >>, << <<"ui">>, <<"ux">> >>}}

InitAtlas ==
    /\ inputs = <<NoPut, NoPut>>
    /\ StoreInit
    /\ NbIdle
    /\ FrameInit

\* a caller stores an Atlas Frame
StoreAtlasFrame(atlasFrame) ==
    /\ op.n < MaxAtlasInserts
    /\ atlas_frames' = insertAtlasFrame(atlas_frames, atlasFrame, now).table
    /\ op' = [NoOp EXCEPT !.n = op.n + 1, !.name = "insertAtlasFrame",
                          !.atlas = Some(atlasFrame)]
    /\ UNCHANGED <<stdio, inputs, facts, locks, now, pc, req, resp, ncalls, nhandled, lockLog, gc, nbVars, frames, frames_fts, lastFrame, nframes, fr_out>>

\* a caller asks for the Atlas Frame of Frame f1 both ways: by frame_id, and
\* by recalling the Frame
LookupAtlasFrame(frameId) ==
    /\ \E direct \in getAtlasFrameByFrameId(atlas_frames, frameId) :
       \E recalled \in recallFrame(frames, frames_fts, atlas_frames,
                         [frame_id |-> Some(frameId), reference_point |-> None,
                          jira |-> None]) :
          /\ recalled.error = "none"
          /\ op' = [NoOp EXCEPT !.n = op.n, !.name = "lookup", !.by_frame = direct,
                                !.by_recall = recalled.atlas_frame]
    /\ UNCHANGED <<stdio, inputs, facts, locks, now, pc, req, resp, ncalls, nhandled, lockLog, gc, nbVars, frameVars>>

NextAtlas ==
    \/ \E atlasFrame \in AtlasFrames : StoreAtlasFrame(atlasFrame)
    \/ \E frame \in LinkFrames : InsertFrame(frame)
    \/ \E frame \in ScopeFrames : InsertFrame(frame)
    \/ LookupAtlasFrame(<<"f1">>)

SpecAtlas == InitAtlas /\ [][NextAtlas]_vars

(***************************************************************************)
(* Recall by reference points of several words                             *)
(***************************************************************************)
\* reference points of two words each
MatchFrames ==
    {[f EXCEPT !.reference_point = rp] :
        f \in {x \in Frames : x.reference_point = <<"beta">>},
        rp \in {<<"auth", "deadlock">>, <<"cache", "fix">>}}

\* queries: the stored words, a stored word with a suffix, two stored words
\* and one that is not stored, and an unknown word
MatchQueries ==
    {[frame_id |-> None, reference_point |-> Some(text), jira |-> None] :
        text \in {<<"auth", "deadlock">>, <<"deadlock", "auth">>, <<"deadlocks">>,
                  <<"auth", "deadlock", "bug">>, <<"bug">>}}

NextMatch ==
    \/ \E frame \in MatchFrames : InsertFrame(frame)
    \/ \E query \in MatchQueries : RecallDb(query)
    \/ \E args \in MatchQueries : RecallMcp(args)

SpecMatch == InitFrame /\ [][NextMatch]_vars

(***************************************************************************)
(* A Frame stored again under its id with other text, and text recalls     *)
(***************************************************************************)
\* Frame f1 in every combination of two reference points, two captions and
\* keywords absent or present
IndexFrames ==
    {[f EXCEPT !.reference_point = rp, !.summary_caption = sc, !.keywords = kw] :
        f \in {x \in Frames : x.id = <<"f1">> /\ x.timestamp = 1
                                /\ x.reference_point = <<"beta">>},
        rp \in {<<"alpha">>, <<"beta">>},
        sc \in {<<"caption">>, <<"other">>},
        kw \in {None, Some(<< <<"kw">> >>)}}

\* recalls by a word of each indexed column
IndexQueries ==
    {[frame_id |-> None, reference_point |-> Some(text), jira |-> None] :
        text \in {<<"alpha">>, <<"beta">>, <<"caption">>, <<"other">>, <<"kw">>}}

NextIndex ==
    \/ \E frame \in IndexFrames : InsertFrame(frame)
    \/ \E query \in IndexQueries : RecallDb(query)
    \/ \E args \in IndexQueries : RecallMcp(args)

SpecIndex == InitFrame /\ [][NextIndex]_vars

(***************************************************************************)
(* Put requests of every kind on either transport                          *)
(***************************************************************************)
\* the advertised kinds and one that is none of them
PutKinds == mcpKindEnum \cup {<<"bogus">>}

KindPuts == {[BasePut EXCEPT !.via = v, !.kind = k] : v \in Transports, k \in PutKinds}

NextKind == \E a \in KindPuts : PutOne(a)

SpecKind == InitPut /\ [][NextKind]_vars

(***************************************************************************)
(* The collection timer of the HTTP server                                 *)
(***************************************************************************)
MaxGcPuts == 2

\* facts with the minimal TTL and without TTL
GcPuts ==
    {[BasePut EXCEPT !.inputs_hash = h, !.ttl_seconds = t] :
        h \in {<<"h1">>, <<"h2">>}, t \in {NoNumber, Some(MinTtl)}}

\* a variant of runGarbageCollection without the try/catch: the error of a
\* failing run leaves the timer callback and ends the process
runGarbageCollectionUncaught(table, clock, fails) ==
    IF fails THEN [table |-> table, deleted |-> 0, timer |-> "stopped"]
    ELSE LET out == cleanupExpiredFacts(table, clock)
         IN [table |-> out.table, deleted |-> out.changes, timer |-> "armed"]

\* runGarbageCollection as the interval timer calls it: an error thrown by
\* cleanupExpiredFacts is caught and logged, and the timer stays armed
runGarbageCollection(table, clock, fails) ==
    IF fails THEN [table |-> table, deleted |-> 0, timer |-> "armed"]
    ELSE LET out == cleanupExpiredFacts(table, clock)
         IN [table |-> out.table, deleted |-> out.changes, timer |-> "armed"]

\* POST /put
GcPutFact(a) ==
    /\ op.n < MaxGcPuts
    /\ LET out == put(a, facts, now)
       IN /\ facts' = out.table
          /\ op' = [op EXCEPT !.n = op.n + 1, !.name = "put", !.put = a,
                              !.inserted = out.inserted, !.fact_id = out.fact_id]
    /\ UNCHANGED <<stdio, inputs, locks, now, pc, req, resp, ncalls, nhandled, lockLog, gc, nbVars, frameVars>>

\* the interval timer fires (as it does at startup): the run deletes the
\* expired facts, or fails
TimerFires(fails) ==
    /\ op.timer = "armed"
    /\ LET out == runGarbageCollection(facts, now, fails)
       IN /\ facts' = out.table
          /\ gc' = [at |-> now, deleted |-> out.deleted]
          /\ op' = [op EXCEPT !.timer = out.timer,
                              !.error = IF fails THEN "gc_error"
                                        ELSE IF op.error = "gc_error" THEN "recovered"
                                        ELSE op.error]
    /\ UNCHANGED <<stdio, inputs, locks, now, pc, req, resp, ncalls, nhandled, lockLog, nbVars, frameVars>>

\* time passes
Later == \E t \in Instants : Tick(t)

NextGc ==
    \/ \E a \in GcPuts : GcPutFact(a)
    \/ TimerFires(FALSE)
    \/ TimerFires(TRUE)
    \/ Later

\* the timer keeps firing while the server runs, runs that fail are
\* followed by runs that do not, and time passes
SpecGc == InitPut /\ [][NextGc]_vars /\ WF_vars(TimerFires(FALSE)) /\ WF_vars(Later)

(***************************************************************************)
(* SpecExpire: the collection runs of two servers on one database, beside  *)
(* puts.  A run starts when runGarbageCollection is entered and ends when  *)
(* SQLite executes the DELETE; in between, the other process may commit    *)
(* and the clock may advance, by no more than the busy timeout.            *)
(***************************************************************************)
MaxExpirePuts == 2
busy_timeout == 5000

\* a variant that deletes the facts whose ids were found expired when the
\* run started
cleanupRunSelectedAtStart(run, table, clock) ==
    LET selected == {r.fact_id : r \in {x \in run.snapshot : Expired(x, run.started)}}
    IN DeleteWhere(table, {r \in table : r.fact_id \in selected})

\* stmt.run() of cleanupExpiredFacts: one DELETE whose WHERE clause, with
\* datetime('now'), SQLite evaluates on the rows present when it executes
cleanupRun(run, table, clock) == cleanupExpiredFacts(table, clock)

\* POST /put
ExpirePut(a) ==
    /\ op.n < MaxExpirePuts
    /\ LET out == put(a, facts, now)
       IN /\ facts' = out.table
          /\ op' = [op EXCEPT !.n = op.n + 1, !.name = "put", !.put = a,
                              !.inserted = out.inserted, !.fact_id = out.fact_id]
    /\ UNCHANGED <<stdio, inputs, locks, now, pc, req, resp, ncalls, nhandled, lockLog, gc, nbVars, frameVars>>

\* the timer of server s fires: runGarbageCollection is entered
ExpireStart(s) ==
    /\ op.runs[s].state = "idle"
    /\ op' = [op EXCEPT !.name = "expire_start",
                        !.runs[s] = [state |-> "started", started |-> now,
                                     snapshot |-> facts]]
    /\ UNCHANGED <<stdio, inputs, facts, locks, now, pc, req, resp, ncalls, nhandled, lockLog, gc, nbVars, frameVars>>

\* the DELETE of server s executes
ExpireDelete(s) ==
    /\ op.runs[s].state = "started"
    /\ LET out == cleanupRun(op.runs[s], facts, now)
       IN /\ facts' = out.table
          /\ gc' = [at |-> now, deleted |-> out.changes]
    /\ op' = [op EXCEPT !.name = "expire", !.rows = op.runs[s].snapshot,
                        !.runs[s] = NoRun]
    /\ UNCHANGED <<stdio, inputs, locks, now, pc, req, resp, ncalls, nhandled, lockLog, nbVars, frameVars>>

\* time passes; a run under way waits for the database no longer than the
\* busy timeout
ExpireTick(t) ==
    /\ t > now
    /\ \A s \in Servers :
          op.runs[s].state = "started" => t - op.runs[s].started <= busy_timeout
    /\ now' = t
    /\ gc' = NoCollection
    /\ UNCHANGED <<stdio, inputs, facts, locks, pc, req, resp, ncalls, nhandled, lockLog, op, nbVars, frameVars>>

NextExpire ==
    \/ \E a \in GcPuts : ExpirePut(a)
    \/ \E s \in Servers : ExpireStart(s)
    \/ \E s \in Servers : ExpireDelete(s)
    \/ \E t \in Instants : ExpireTick(t)

SpecExpire == InitPut /\ [][NextExpire]_vars

(***************************************************************************)
(* SpecStale: puts and gets around the moment a TTL passes.  Every step    *)
(* names itself in op, so that op describes the last step taken.           *)
(***************************************************************************)
MaxStalePuts == 2

\* the stored row d holds the kind, scope, inputs_hash and payload of the
\* put request a
StoredFrom(d, a) ==
    /\ d.kind = a.kind
    /\ d.repo = a.scope.repo /\ d.commit = a.scope.commit
    /\ d.path = OrNull(a.scope.path) /\ d.symbol = OrNull(a.scope.symbol)
    /\ d.inputs_hash = a.inputs_hash
    /\ d.payload = Stringify(a.payload)

\* POST /put, tools.thought_put; op.gone holds the rows that expire runs have
\* deleted and that no put has stored again, op.back those among them that
\* this put stores again
StalePut(a) ==
    /\ op.n < MaxStalePuts
    /\ LET out == put(a, facts, now)
       IN /\ facts' = out.table
          /\ op' = [NoOp EXCEPT !.n = op.n + 1, !.name = "put", !.put = a,
                                !.error = out.error, !.inserted = out.inserted,
                                !.fact_id = out.fact_id,
                                !.existed = \E r \in facts : r.fact_id = out.fact_id,
                                !.back = {d \in op.gone : StoredFrom(d, a)},
                                !.gone = {d \in op.gone : ~StoredFrom(d, a)}]
    /\ UNCHANGED <<stdio, inputs, locks, now, pc, req, resp, ncalls, nhandled, lockLog, gc, nbVars, frameVars>>

\* a variant of get that leaves out the facts whose TTL has passed
StaleGetFresh(via, query) ==
    /\ op' = [op EXCEPT !.name = "get", !.via = via, !.query = query,
                        !.rows = get(via, query, {r \in facts : ~Expired(r, now)})]
    /\ UNCHANGED <<stdio, inputs, facts, locks, now, pc, req, resp, ncalls, nhandled, lockLog, gc, nbVars, frameVars>>

\* POST /get, tools.thought_get
StaleGet(via, query) ==
    /\ op' = [op EXCEPT !.name = "get", !.via = via, !.query = query,
                        !.rows = get(via, query, facts)]
    /\ UNCHANGED <<stdio, inputs, facts, locks, now, pc, req, resp, ncalls, nhandled, lockLog, gc, nbVars, frameVars>>

\* runGarbageCollection
StaleExpire ==
    /\ LET out == cleanupExpiredFacts(facts, now)
       IN /\ facts' = out.table
          /\ gc' = [at |-> now, deleted |-> out.changes]
          /\ op' = [op EXCEPT !.name = "expire",
                              !.gone = op.gone \cup (facts \ out.table)]
    /\ UNCHANGED <<stdio, inputs, locks, now, pc, req, resp, ncalls, nhandled, lockLog, nbVars, frameVars>>

\* time passes
StaleTick(t) ==
    /\ t > now
    /\ now' = t
    /\ gc' = NoCollection
    /\ op' = [op EXCEPT !.name = "tick"]
    /\ UNCHANGED <<stdio, inputs, facts, locks, pc, req, resp, ncalls, nhandled, lockLog, nbVars, frameVars>>

NextStale ==
    \/ \E a \in GcPuts : StalePut(a)
    \/ \E via \in Transports : \E a \in GcPuts : StaleGet(via, QueryFor(a))
    \/ StaleExpire
    \/ \E t \in Instants : StaleTick(t)

SpecStale == InitPut /\ [][NextStale]_vars

(***************************************************************************)
(* SpecZk: the SDK in zk mode against a server in either mode.  The cipher *)
(* is symbolic: a ciphertext names the key it was made with and holds the  *)
(* data, and deciphering with another key fails.                           *)
(***************************************************************************)
MaxZkPuts == 2

\* the key of the SDK instance
KeyHex1 == <<"k1">>

\* crypto.randomBytes(16): the values the draw can take in the model
Ivs == {<<"iv1">>, <<"iv2">>}

\* the alphabet of base64 holds none of the punctuation of JSON
Base64Of(t) ==
    CASE t = "\"" -> "Q" [] t = "{" -> "L" [] t = "}" -> "R" [] t = ":" -> "C"
      [] t = "," -> "M" [] OTHER -> t

FromBase64Of(t) ==
    CASE t = "Q" -> "\"" [] t = "L" -> "{" [] t = "R" -> "}" [] t = "C" -> ":"
      [] t = "M" -> "," [] OTHER -> t

\* buffer.toString('base64')
toBase64(bytes) == [i \in 1..Len(bytes) |-> Base64Of(bytes[i])]

\* Buffer.from(text, 'base64')
fromBase64(text) == [i \in 1..Len(text) |-> FromBase64Of(text[i])]

\* createCipher('aes-256-cbc', key): update and final
Cipher(key, data) == <<"aes">> \o key \o data

\* createDecipher('aes-256-cbc', key): update and final, which throws on a
\* ciphertext of another key
Decipher(key, ciphertext) ==
    IF Len(ciphertext) > Len(key) /\ SubSeq(ciphertext, 1, 1 + Len(key)) = <<"aes">> \o key
    THEN [ok |-> TRUE, data |-> SubSeq(ciphertext, 2 + Len(key), Len(ciphertext))]
    ELSE [ok |-> FALSE, data |-> <<>>]

\* parseInt of the length field
ParseLength(token, most) ==
    IF \E n \in 0..most : ToString(n) = token
    THEN CHOOSE n \in 0..most : ToString(n) = token
    ELSE -1

\* sdk-ts encryptZk: the length of the associated data, the associated data
\* and the plaintext are encrypted together; the IV is drawn and returned
encryptZk(keyHex, plaintext, aad, iv) ==
    LET dataWithAad == <<ToString(Len(aad))>> \o aad \o plaintext
    IN [iv |-> toBase64(iv), ct |-> toBase64(Cipher(keyHex, dataWithAad))]

\* sdk-ts decryptZk: throws when deciphering fails or when the associated
\* data held in the ciphertext is not the one given
decryptZk(keyHex, ivB64, ctB64, aad) ==
    LET decrypted == Decipher(keyHex, fromBase64(ctB64))
        aadLength == IF decrypted.ok /\ decrypted.data # <<>>
                     THEN ParseLength(decrypted.data[1], Len(decrypted.data)) ELSE -1
        extractedAad == IF aadLength >= 0 /\ 1 + aadLength <= Len(decrypted.data)
                        THEN SubSeq(decrypted.data, 2, 1 + aadLength) ELSE <<>>
    IN IF ~decrypted.ok \/ aadLength < 0
       THEN [ok |-> FALSE, plaintext |-> <<>>, extractedAad |-> <<>>]
       ELSE IF extractedAad # aad
       THEN [ok |-> FALSE, plaintext |-> <<>>, extractedAad |-> extractedAad]
       ELSE [ok |-> TRUE, extractedAad |-> extractedAad,
             plaintext |-> SubSeq(decrypted.data, 2 + aadLength, Len(decrypted.data))]

\* LexBrain.factId of the SDK
sdkFactId(kind, scope, inputs_hash, payload_hash) ==
    sdkSha256(JObj(<< <<"kind", JStr(kind)>>,
                      <<"scope", ScopeObject(scope)>>,
                      <<"inputs_hash", JStr(inputs_hash)>>,
                      <<"payload_hash", JStr(payload_hash)>> >>))

\* LexBrain.put in zk mode: the associated data of the encryption
preliminaryFactId(fact) ==
    sdkFactId(fact.kind, fact.scope, fact.inputs_hash, sdkSha256(JStr(<<"placeholder">>)))

\* LexBrain.put in zk mode: the body of the POST /put it sends
sdkPutBody(fact, keyHex, iv) ==
    LET plaintextBytes == Stringify(fact.payload)
        encrypted == encryptZk(keyHex, plaintextBytes, preliminaryFactId(fact), iv)
    IN [fact EXCEPT !.payload = JObj(<< <<"ciphertext", JStr(encrypted.ct)>>,
                                        <<"iv", JStr(encrypted.iv)>> >>)]

\* payload && typeof payload === 'object' && payload.ciphertext && payload.iv
IsZkPayload(payload) ==
    /\ payload.t = "obj"
    /\ Has(ObjectKeys(payload), "ciphertext") /\ ~Falsy(Field(payload, "ciphertext"))
    /\ Has(ObjectKeys(payload), "iv") /\ ~Falsy(Field(payload, "iv"))

\* POST /put in zk mode
putHttpZk(body, table, clock) ==
    IF body.kind \notin ThoughtKind THEN Rejected("invalid_request", table)
    ELSE IF ~validatePayloadSize(body.payload) THEN Rejected("payload_too_large", table)
    ELSE IF TtlOutOfBounds(body.ttl_seconds) THEN Rejected("invalid_ttl", table)
    ELSE IF body.payload.t # "obj" THEN Rejected("zk_payload_expected", table)
    ELSE IF ~IsZkPayload(body.payload) THEN Rejected("zk_fields_missing", table)
    ELSE LET payloadHash == sha256(Field(body.payload, "ciphertext"))
             fact_id == factId(body.kind, body.scope, body.inputs_hash, payloadHash)
             res == insertFact(table,
                        [fact_id |-> fact_id, kind |-> body.kind, scope |-> body.scope,
                         inputs_hash |-> body.inputs_hash,
                         payload_json |-> Stringify(body.payload),
                         ts |-> clock, ttl_seconds |-> body.ttl_seconds,
                         actor |-> body.actor, refs |-> body.refs])
         IN [error |-> "none", fact_id |-> fact_id, inserted |-> res.inserted,
             table |-> res.table]

\* POST /put of a server started in the given mode
putInMode(mode, body, table, clock) ==
    IF mode = "zk" THEN putHttpZk(body, table, clock) ELSE putHttp(body, table, clock)

\* the decrypt helper of a returned fact, applied to a payload
decrypt(keyHex, fact, payload) ==
    IF IsZkPayload(payload)
    THEN LET decrypted == decryptZk(keyHex, Field(payload, "iv").s,
                                    Field(payload, "ciphertext").s, fact.fact_id)
         IN IF decrypted.ok
            THEN [threw |-> FALSE, value |-> Parse(decrypted.plaintext),
                  extractedAad |-> decrypted.extractedAad]
            ELSE [threw |-> TRUE, value |-> JNum(0),
                  extractedAad |-> decrypted.extractedAad]
    ELSE [threw |-> FALSE, value |-> payload, extractedAad |-> <<>>]

\* LexBrain.get in zk mode: every fact of the response, with what its
\* decrypt helper makes of its own payload
sdkGet(keyHex, query, table) ==
    {[fact |-> f, decrypt |-> decrypt(keyHex, f, f.payload)] : f \in get("http", query, table)}

\* the facts the SDK stores: two payloads under two inputs hashes
ZkFacts ==
    {[BasePut EXCEPT !.inputs_hash = h, !.payload = p] :
        h \in {<<"h1">>, <<"h2">>}, p \in {PayloadFlat, PayloadNested1}}

ServerModes == {"local", "zk"}

\* the mode of the server of this run, fixed when it starts
ServerMode == inputs[1].mode

\* a run: the server is started in a mode and the SDK has two facts to store
InitZk ==
    /\ inputs \in {<<[mode |-> m, fact |-> a], [mode |-> m, fact |-> b]>> :
                      m \in ServerModes, a \in ZkFacts, b \in ZkFacts}
    /\ StoreInit
    /\ NbIdle
    /\ FrameInit

\* LexBrain.put in zk mode and the POST /put it makes
ZkPut(i, iv) ==
    /\ op.n < MaxZkPuts
    /\ LET body == sdkPutBody(inputs[i].fact, KeyHex1, iv)
           out == putInMode(ServerMode, body, facts, now)
       IN /\ facts' = out.table
          /\ op' = [NoOp EXCEPT !.n = op.n + 1, !.name = "sdk_put",
                                !.put = inputs[i].fact, !.error = out.error,
                                !.inserted = out.inserted, !.fact_id = out.fact_id]
    /\ UNCHANGED <<stdio, inputs, locks, now, pc, req, resp, ncalls, nhandled, lockLog, gc,
                   nb_in, nb_radius, nb_out, frames, frames_fts, atlas_frames,
                   lastFrame, nframes, fr_out>>

\* LexBrain.get in zk mode, and the decrypt helper called on every fact
ZkGet(i) ==
    /\ op.name # "sdk_get" \/ op.put # inputs[i].fact
    /\ op' = [NoOp EXCEPT !.n = op.n, !.name = "sdk_get", !.put = inputs[i].fact,
                          !.query = OwnQuery(inputs[i].fact),
                          !.rows = sdkGet(KeyHex1, OwnQuery(inputs[i].fact), facts)]
    /\ UNCHANGED <<stdio, inputs, facts, locks, now, pc, req, resp, ncalls, nhandled, lockLog,
                   gc, nb_in, nb_radius, nb_out, frames, frames_fts, atlas_frames,
                   lastFrame, nframes, fr_out>>

NextZk ==
    \/ \E i \in 1..2 : \E iv \in Ivs : ZkPut(i, iv)
    \/ \E i \in 1..2 : ZkGet(i)

SpecZk == InitZk /\ [][NextZk]_vars

(***************************************************************************)
(* SpecStdio: the stdio message loop of the MCP server.  The text on stdin *)
(* is a sequence of tokens: a request, the value null, a blank and the     *)
(* newline.  The 'data' handler awaits every request; the tools are        *)
(* synchronous, so each await resumes from the microtask queue, and the    *)
(* next 'data' event, which a later I/O callback emits, finds no line of   *)
(* an earlier chunk unhandled.                                             *)
(***************************************************************************)
MaxStream == 5

StdinTokens == {"req", "null", " ", "\n"}

\* every text of at most n tokens
RECURSIVE TextsUpTo(_)
TextsUpTo(n) ==
    IF n = 0 THEN {<<>>}
    ELSE LET shorter == TextsUpTo(n - 1)
         IN shorter \cup {Append(t, c) : t \in {s \in shorter : Len(s) = n - 1},
                                         c \in StdinTokens}

\* text.split("\n"): the segments between the newlines, the last one being
\* what follows the last newline
RECURSIVE SplitNewline(_, _)
SplitNewline(text, segment) ==
    IF text = <<>> THEN <<segment>>
    ELSE IF Head(text) = "\n" THEN <<segment>> \o SplitNewline(Tail(text), <<>>)
    ELSE SplitNewline(Tail(text), Append(segment, Head(text)))

\* line.trim()
RECURSIVE TrimStart(_)
TrimStart(line) ==
    IF line # <<>> /\ Head(line) = " " THEN TrimStart(Tail(line)) ELSE line

trim(line) == Reverse(TrimStart(Reverse(TrimStart(line))))

\* JSON.parse(line): one value between optional blanks, or a SyntaxError
JsonParse(line) ==
    LET text == trim(line)
    IN IF Len(text) = 1 THEN [threw |-> FALSE, value |-> text[1]]
       ELSE [threw |-> TRUE, value |-> ""]

\* handleRequest: destructuring null throws before the try block; a request
\* is answered
handleRequest(request) ==
    IF request = "null" THEN [threw |-> TRUE, response |-> ""]
    ELSE [threw |-> FALSE, response |-> "response"]

\* the body of the loop for one line that is not blank: what is written,
\* and where
HandleLine(line) ==
    LET request == JsonParse(line)
        response == handleRequest(request.value)
    IN IF request.threw \/ response.threw
       THEN [line |-> line, to |-> "stderr", wrote |-> "Parse error"]
       ELSE [line |-> line, to |-> "stdout", wrote |-> response.response]

\* a variant of lines.pop() that leaves nothing in the buffer
popDiscarding(lines) == <<>>

\* buffer = lines.pop(): the text after the last newline
pop(lines) == lines[Len(lines)]

\* nothing has arrived of the text still to come
StdioOn(text) == [NoStdio EXCEPT !.stdin = text]

InitStdio ==
    /\ inputs = <<NoPut, NoPut>>
    /\ StoreEmpty
    /\ stdio \in {StdioOn(text) : text \in TextsUpTo(MaxStream)}
    /\ NbIdle
    /\ FrameInit

\* process.stdin.on("data"): the chunk joins the buffer, the complete lines
\* are taken off it, and the loop is entered; carried tells that a chunk
\* found the beginning of a line in the buffer
Data(k) ==
    /\ stdio.lines = <<>>
    /\ k <= Len(stdio.stdin)
    /\ LET chunk == SubSeq(stdio.stdin, 1, k)
           lines == SplitNewline(stdio.buffer \o chunk, <<>>)
       IN stdio' = [stdio EXCEPT !.stdin = SubSeq(stdio.stdin, k + 1, Len(stdio.stdin)),
                                 !.arrived = stdio.arrived \o chunk,
                                 !.buffer = pop(lines),
                                 !.lines = SubSeq(lines, 1, Len(lines) - 1),
                                 !.carried = stdio.carried \/ stdio.buffer # <<>>]
    /\ UNCHANGED <<storeVars, nbVars, frameVars>>

\* one turn of the loop: a blank line is passed over, any other is parsed
\* and handled, and what it throws is caught
LoopTurn ==
    /\ stdio.lines # <<>>
    /\ LET line == Head(stdio.lines)
       IN stdio' = [stdio EXCEPT !.lines = Tail(stdio.lines),
                                 !.handled = IF trim(line) = <<>> THEN stdio.handled
                                             ELSE Append(stdio.handled, HandleLine(line))]
    /\ UNCHANGED <<storeVars, nbVars, frameVars>>

NextStdio ==
    \/ \E k \in 1..MaxStream : Data(k)
    \/ LoopTurn

\* the event loop runs the continuations of a handler and delivers what is
\* readable on stdin
SpecStdio == InitStdio /\ [][NextStdio]_vars /\ WF_vars(NextStdio)

(***************************************************************************)
(* The locks next to every other operation on the store, one at a time     *)
(***************************************************************************)
MaxHoldOps == 4

\* caller c1 is a client of the HTTP server, c2 of the MCP server; both
\* servers open the same database
TransportOf(c) == IF c = "c1" THEN "http" ELSE "mcp"

\* the fact and the Frame that are stored while locks are held
HoldPut == [BasePut EXCEPT !.ttl_seconds = Some(MinTtl)]
HoldFrames ==
    {f \in Frames : f.id = <<"f1">> /\ f.timestamp = 1 /\ f.reference_point = <<"beta">>}

\* the instant by which the stored fact has outlived its TTL
HoldLater == 61000

InitHold ==
    /\ inputs = <<HoldPut, HoldPut>>
    /\ StoreInit
    /\ NbIdle
    /\ FrameInit

\* POST /lock, tools.thought_lock
HoldLock(c, name) ==
    /\ op.n < MaxHoldOps
    /\ LET out == IF TransportOf(c) = "http" THEN acquireLock(locks, name)
                  ELSE mcpLock(locks, name)
       IN /\ locks' = out.table
          /\ op' = [NoOp EXCEPT
                      !.n = op.n + 1, !.name = "lock", !.caller = c, !.lock = name,
                      !.ok = out.ok,
                      !.since = IF out.ok THEN [op.since EXCEPT ![name] = op.n + 1]
                                ELSE op.since,
                      !.taker = IF out.ok THEN [op.taker EXCEPT ![name] = c]
                                ELSE op.taker]
    /\ UNCHANGED <<stdio, inputs, facts, now, pc, req, resp, ncalls, nhandled, lockLog, gc, nbVars, frameVars>>

\* POST /unlock, tools.thought_unlock
HoldUnlock(c, name) ==
    /\ op.n < MaxHoldOps
    /\ LET out == IF TransportOf(c) = "http" THEN releaseLock(locks, name)
                  ELSE mcpUnlock(locks, name)
       IN /\ locks' = out.table
          /\ op' = [NoOp EXCEPT
                      !.n = op.n + 1, !.name = "unlock", !.caller = c, !.lock = name,
                      !.ok = out.ok,
                      !.since = [op.since EXCEPT ![name] = 0],
                      !.taker = [op.taker EXCEPT ![name] = ""]]
    /\ UNCHANGED <<stdio, inputs, facts, now, pc, req, resp, ncalls, nhandled, lockLog, gc, nbVars, frameVars>>

\* POST /put, tools.thought_put of the caller's transport
HoldPutFact(c) ==
    /\ op.n < MaxHoldOps
    /\ LET out == put([inputs[1] EXCEPT !.via = TransportOf(c)], facts, now)
       IN /\ facts' = out.table
          /\ op' = [NoOp EXCEPT
                      !.n = op.n + 1, !.name = "put", !.caller = c,
                      !.error = out.error, !.inserted = out.inserted,
                      !.fact_id = out.fact_id,
                      !.since = op.since, !.taker = op.taker]
    /\ UNCHANGED <<stdio, inputs, locks, now, pc, req, resp, ncalls, nhandled, lockLog, gc, nbVars, frameVars>>

\* POST /get: a read of the facts table
HoldGet(c) ==
    /\ op.n < MaxHoldOps
    /\ op' = [NoOp EXCEPT
                !.n = op.n + 1, !.name = "get", !.caller = c,
                !.ok = getFacts(facts, QueryFor(inputs[1])) # {},
                !.since = op.since, !.taker = op.taker]
    /\ UNCHANGED <<stdio, inputs, facts, locks, now, pc, req, resp, ncalls, nhandled, lockLog, gc, nbVars, frameVars>>

NextHold ==
    \/ \E c \in Callers : \E name \in LockNames : HoldLock(c, name)
    \/ \E c \in Callers : \E name \in LockNames : HoldUnlock(c, name)
    \/ \E c \in Callers : HoldPutFact(c)
    \/ \E c \in Callers : HoldGet(c)
    \/ \E frame \in HoldFrames : InsertFrame(frame)
    \/ RunGarbageCollection
    \/ Tick(HoldLater)

SpecHold == InitHold /\ [][NextHold]_vars

(***************************************************************************)
(* Claims about put                                                        *)
(***************************************************************************)
\* the callers whose last request was a put that has been answered
PutDone == {c \in Callers : resp[c].op = "put"}

\* kind, scope, inputs_hash and payload of two put requests are equal
SameFact(a, b) ==
    /\ a.kind = b.kind
    /\ a.scope = b.scope
    /\ a.inputs_hash = b.inputs_hash
    /\ a.payload = b.payload

RowsOf(fact_id) == {r \in facts : r.fact_id = fact_id}

C2_FactIdIdentifiesTuple ==
    \A c \in PutDone : \A d \in PutDone :
      (req[c].put.via = req[d].put.via) =>
         ((resp[c].fact_id = resp[d].fact_id) <=> SameFact(req[c].put, req[d].put))

\* C5: when a put is executed while another put of the same fact is in
\* flight, both return the same fact_id without error, the later one returns
\* inserted=false, the earlier one inserted=true when the fact was not
\* stored before, and one row results (it stays until a collection runs).
C5_ConcurrentPut ==
    \A c \in PutDone : \A d \in PutDone :
      (/\ req[d].id \in resp[c].conc
       /\ req[c].put = req[d].put
       /\ resp[c].row_ts = resp[d].row_ts) =>
          /\ resp[c].error = "none" /\ resp[d].error = "none"
          /\ resp[c].fact_id = resp[d].fact_id
          /\ ~resp[d].inserted
          /\ (~resp[c].existed => resp[c].inserted)
          /\ Cardinality(RowsOf(resp[c].fact_id)) <= 1
          /\ ((now = resp[d].at /\ gc.at # now) =>
                 Cardinality(RowsOf(resp[c].fact_id)) = 1)

C5_Witness ==
    /\ resp["c1"].op = "put" /\ resp["c2"].op = "put"
    /\ req["c2"].id \in resp["c1"].conc
    /\ req["c1"].put = req["c2"].put
    /\ resp["c1"].inserted /\ ~resp["c2"].inserted
    /\ Cardinality(RowsOf(resp["c1"].fact_id)) = 1

(***************************************************************************)
(* Claims about expire                                                     *)
(***************************************************************************)
\* the whole second a millisecond instant falls in
SecondOf(ms) == ms \div 1000

\* the rows returned by the basic query for a row's repo, commit and kind
Visible(r, table) ==
    r \in getFacts(table, [repo |-> r.repo, commit |-> r.commit, kind |-> r.kind,
                           path |-> None, symbol |-> None, inputs_hash |-> None])

\* C6 as stated: an expire run at time now deletes exactly the facts that
\* have a TTL and satisfy created_at + ttl_seconds < now.
C6_ExpireExactToTheInstant ==
    [][RunGarbageCollection =>
         facts' = {r \in facts :
                     ~(r.ttl_seconds.some /\ r.ts + r.ttl_seconds.v * 1000 < now)}]_vars

\* C6 amended: an expire run deletes exactly the facts that have a TTL and
\* whose second of expiry (second of creation + ttl_seconds) lies before the
\* current second, and counts them; facts without TTL stay.  A fact created
\* at t with ttl_seconds = 60 is returned by get before the run at t+61 and
\* not after it, and survives a run at exactly t+60.
C6_ExpireByWholeSeconds ==
    [][RunGarbageCollection =>
         /\ \A r \in facts :
              (r \notin facts') <=>
                 (r.ttl_seconds.some /\
                  SecondOf(r.ts) + r.ttl_seconds.v + 1 <= SecondOf(now))
         /\ facts' \subseteq facts
         /\ cleanupExpiredFacts(facts, now).changes
              = Cardinality(facts) - Cardinality(facts')
         /\ \A r \in facts :
              (r.ttl_seconds = Some(60)) =>
                 /\ Visible(r, facts)
                 /\ (now >= r.ts + 61000 => ~Visible(r, facts'))
                 /\ (now = r.ts + 60000 => Visible(r, facts'))]_vars

\* a fact put with ttl_seconds = 60 at instant 0 has been deleted by the
\* run at 61000, which counted it
C6_Witness ==
    /\ now = 61000
    /\ gc = [at |-> 61000, deleted |-> 1]
    /\ resp["c1"].op = "put" /\ resp["c1"].inserted /\ resp["c1"].at = 0
    /\ req["c1"].put.ttl_seconds = Some(60)
    /\ RowsOf(resp["c1"].fact_id) = {}

(***************************************************************************)
(* Claims about the advisory locks                                         *)
(***************************************************************************)
\* the entries of lockLog before position i that concern name
Prior(i, name) == {j \in 1..(i - 1) : lockLog[j].name = name}

\* name is held once the first i-1 logged operations have run: the last of
\* them that concerns name is an acquire
HeldBefore(i, name) ==
    /\ Prior(i, name) # {}
    /\ lockLog[Max(Prior(i, name))].op = "lock"

\* the logged operations on name, in order
OpsOn(name) == SelectSeq(lockLog, LAMBDA e : e.name = name)

\* C3: acquire(name) returns true exactly when name is not held at that
\* moment, and name is held afterwards; on a free name the sequence acquire,
\* acquire, release, acquire returns true, false, true, true.
C3_AcquireIffFree ==
    /\ \A i \in 1..Len(lockLog) :
         (lockLog[i].op = "lock") =>
            (lockLog[i].ok <=> ~HeldBefore(i, lockLog[i].name))
    /\ \A name \in LockNames :
         ([name |-> name] \in locks) <=> HeldBefore(Len(lockLog) + 1, name)
    /\ \A name \in LockNames :
         LET ops == OpsOn(name)
         IN (/\ Len(ops) >= 4
             /\ <<ops[1].op, ops[2].op, ops[3].op, ops[4].op>>
                  = <<"lock", "lock", "unlock", "lock">>) =>
                <<ops[1].ok, ops[2].ok, ops[3].ok, ops[4].ok>>
                  = <<TRUE, FALSE, TRUE, TRUE>>

C3_Witness ==
    LET ops == OpsOn("x")
    IN /\ Len(ops) = 4
       /\ <<ops[1].op, ops[2].op, ops[3].op, ops[4].op>>
            = <<"lock", "lock", "unlock", "lock">>
       /\ <<ops[1].ok, ops[2].ok, ops[3].ok, ops[4].ok>>
            = <<TRUE, FALSE, TRUE, TRUE>>
       /\ [name |-> "x"] \in locks

\* the successful acquires of name that no later release of name has undone
Holders(name) ==
    {i \in 1..Len(lockLog) :
        /\ lockLog[i].op = "lock" /\ lockLog[i].name = name /\ lockLog[i].ok
        /\ ~\E j \in (i + 1)..Len(lockLog) :
              lockLog[j].op = "unlock" /\ lockLog[j].name = name}

\* C4: a name has at most one holder, and of two acquires of a name that
\* were in flight together, with no release of the name executed between
\* them, at most one returns true: exactly one when the name was free.
C4_OneHolder ==
    /\ \A name \in LockNames : Cardinality(Holders(name)) <= 1
    /\ \A i \in 1..Len(lockLog) : \A j \in 1..Len(lockLog) :
         (/\ i < j
          /\ lockLog[i].op = "lock" /\ lockLog[j].op = "lock"
          /\ lockLog[i].name = lockLog[j].name
          /\ lockLog[j].id \in lockLog[i].conc
          /\ ~\E k \in (i + 1)..(j - 1) :
                lockLog[k].op = "unlock" /\ lockLog[k].name = lockLog[i].name) =>
            /\ ~(lockLog[i].ok /\ lockLog[j].ok)
            /\ (~HeldBefore(i, lockLog[i].name) => (lockLog[i].ok /\ ~lockLog[j].ok))

C4_Witness ==
    /\ Len(lockLog) = 2
    /\ lockLog[1].op = "lock" /\ lockLog[2].op = "lock"
    /\ lockLog[1].name = "x" /\ lockLog[2].name = "x"
    /\ lockLog[2].id \in lockLog[1].conc
    /\ lockLog[1].ok /\ ~lockLog[2].ok
    /\ Cardinality(Holders("x")) = 1

(***************************************************************************)
(* codemap-indexer: extractNeighborhood                                    *)
(* Module ids are 1..NumModules; their numeric order stands for the        *)
(* string order Array.prototype.sort uses (1 = "A", 2 = "B", ...).         *)
(***************************************************************************)
NumModules == 4
MaxEdges == 3
MaxSeeds == 2
MaxRadius == 3
BigRadius == 100

ModuleIds == 1..NumModules
Radii == (-1..MaxRadius) \cup {BigRadius}

\* policy.modules[id] of the fixtures: coords only, metadata arrays absent
ModuleMetadata(id) == [coords |-> <<id - 1, 2>>]

\* policy.modules[id] is truthy
InPolicy(policy, id) == id \in DOMAIN policy

\* new Set(xs): insertion order kept, repeats dropped
RECURSIVE NewSet(_)
NewSet(xs) ==
    IF xs = <<>> THEN <<>>
    ELSE LET init == NewSet(SubSeq(xs, 1, Len(xs) - 1))
             x == xs[Len(xs)]
         IN IF Has(init, x) THEN init ELSE Append(init, x)

\* Set.prototype.add
SetAdd(s, x) == IF Has(s, x) THEN s ELSE Append(s, x)

\* Array.prototype.sort() with the default comparator
SortKeepingDuplicates(s) ==
    LET RECURSIVE Ins(_, _)
        Ins(t, x) == IF t = <<>> THEN <<x>>
                     ELSE IF x <= Head(t) THEN <<x>> \o t
                     ELSE <<Head(t)>> \o Ins(Tail(t), x)
        RECURSIVE Go(_, _)
        Go(t, acc) == IF t = <<>> THEN acc ELSE Go(Tail(t), Ins(acc, Head(t)))
    IN Go(s, <<>>)

\* a variant that leaves the array in insertion order
NoSort(s) == s

\* Array.from(set).sort()
ArraySort(s) == SortKeepingDuplicates(s)

\* the test of the inner if: not yet in the neighbourhood and known to policy
ShouldAdd(modulesInNeighborhood, policy, neighbor) ==
    ~Has(modulesInNeighborhood, neighbor) /\ InPolicy(policy, neighbor)

\* a variant that queues every unseen neighbour for the next level and
\* filters by policy only what enters the result
RECURSIVE VisitNeighborsExpandingUnknown(_, _, _)
VisitNeighborsExpandingUnknown(neighbors, st, policy) ==
    IF neighbors = <<>> THEN st
    ELSE LET neighbor == Head(neighbors)
         IN VisitNeighborsExpandingUnknown(Tail(neighbors),
                IF ~Has(st.modulesInNeighborhood, neighbor)
                   /\ ~Has(st.nextLevel, neighbor)
                THEN [nextLevel |-> SetAdd(st.nextLevel, neighbor),
                      modulesInNeighborhood |->
                          IF InPolicy(policy, neighbor)
                          THEN SetAdd(st.modulesInNeighborhood, neighbor)
                          ELSE st.modulesInNeighborhood]
                ELSE st,
                policy)

\* for (const neighbor of neighbors) { ... }
RECURSIVE VisitNeighbors(_, _, _)
VisitNeighbors(neighbors, st, policy) ==
    IF neighbors = <<>> THEN st
    ELSE LET neighbor == Head(neighbors)
         IN VisitNeighbors(Tail(neighbors),
                IF ShouldAdd(st.modulesInNeighborhood, policy, neighbor)
                THEN [nextLevel |-> SetAdd(st.nextLevel, neighbor),
                      modulesInNeighborhood |->
                          SetAdd(st.modulesInNeighborhood, neighbor)]
                ELSE st,
                policy)

\* a variant that expands only the first module of a level
VisitLevelFirstOnly(currentLevel, st, adjacencyGraph, policy) ==
    IF currentLevel = <<>> THEN st
    ELSE IF Head(currentLevel) \in DOMAIN adjacencyGraph
    THEN VisitNeighbors(adjacencyGraph[Head(currentLevel)], st, policy)
    ELSE st

\* for (const moduleId of currentLevel) { ... }
RECURSIVE VisitLevel(_, _, _, _)
VisitLevel(currentLevel, st, adjacencyGraph, policy) ==
    IF currentLevel = <<>> THEN st
    ELSE LET moduleId == Head(currentLevel)
         IN VisitLevel(Tail(currentLevel),
                IF moduleId \in DOMAIN adjacencyGraph
                THEN VisitNeighbors(adjacencyGraph[moduleId], st, policy)
                ELSE st,
                adjacencyGraph, policy)

\* a variant of the loop condition that runs one level too many
HopLimitInclusive(hop, foldRadius) == hop <= foldRadius

\* the loop condition hop < foldRadius
HopInRange(hop, foldRadius) == hop < foldRadius

\* a variant of the early exit that also stops on a level of one module
BreakOnSmallLevel(nextLevel) == Len(nextLevel) <= 1

\* the early exit: nextLevel.size === 0
LevelExhausted(nextLevel) == Len(nextLevel) = 0

\* for (let hop = 0; hop < foldRadius; hop++) { ... }
RECURSIVE ExpandHops(_, _, _, _, _, _)
ExpandHops(hop, currentLevel, modulesInNeighborhood, adjacencyGraph, policy, foldRadius) ==
    IF ~HopInRange(hop, foldRadius) THEN modulesInNeighborhood
    ELSE LET st == VisitLevel(currentLevel,
                       [nextLevel |-> <<>>,
                        modulesInNeighborhood |-> modulesInNeighborhood],
                       adjacencyGraph, policy)
         IN IF LevelExhausted(st.nextLevel)
            THEN st.modulesInNeighborhood
            ELSE ExpandHops(hop + 1, st.nextLevel, st.modulesInNeighborhood,
                            adjacencyGraph, policy, foldRadius)

\* the optional arrays of ModuleMetadata that ModuleData carries
ArrayKeys ==
    {"allowed_callers", "forbidden_callers", "feature_flags",
     "requires_permissions", "kill_patterns"}

\* metadata[key] || []
ArrayOrEmpty(metadata, key) == IF key \in DOMAIN metadata THEN metadata[key] ELSE <<>>

\* a variant that spreads the policy entry into the result
BuildModuleDataSpread(id, metadata) ==
    [k \in {"id"} \cup DOMAIN metadata |-> IF k = "id" THEN id ELSE metadata[k]]

BuildModuleData(id, metadata) ==
    [id |-> id,
     coords |-> metadata.coords,
     allowed_callers |-> ArrayOrEmpty(metadata, "allowed_callers"),
     forbidden_callers |-> ArrayOrEmpty(metadata, "forbidden_callers"),
     feature_flags |-> ArrayOrEmpty(metadata, "feature_flags"),
     requires_permissions |-> ArrayOrEmpty(metadata, "requires_permissions"),
     kill_patterns |-> ArrayOrEmpty(metadata, "kill_patterns")]

\* the three input checks, in the order of the code; "none" when all pass
\* a variant of the validation without the test of foldRadius
ValidateInputsAnyRadius(seedModules, policy, foldRadius) ==
    IF Len(seedModules) = 0 THEN [error |-> "empty_seeds", seed |-> 0]
    ELSE IF \E i \in 1..Len(seedModules) : ~InPolicy(policy, seedModules[i])
    THEN [error |-> "unknown_seed",
          seed |-> seedModules[Min({i \in 1..Len(seedModules) :
                                      ~InPolicy(policy, seedModules[i])})]]
    ELSE [error |-> "none", seed |-> 0]

ValidateInputs(seedModules, policy, foldRadius) ==
    IF Len(seedModules) = 0 THEN [error |-> "empty_seeds", seed |-> 0]
    ELSE IF foldRadius < 0 THEN [error |-> "negative_radius", seed |-> 0]
    ELSE IF \E i \in 1..Len(seedModules) : ~InPolicy(policy, seedModules[i])
    THEN [error |-> "unknown_seed",
          seed |-> seedModules[Min({i \in 1..Len(seedModules) :
                                      ~InPolicy(policy, seedModules[i])})]]
    ELSE [error |-> "none", seed |-> 0]

ExtractNeighborhood(seedModules, adjacencyGraph, policy, foldRadius) ==
    LET v == ValidateInputs(seedModules, policy, foldRadius)
    IN IF v.error # "none"
       THEN [error |-> v.error, seed |-> v.seed, seed_modules |-> <<>>,
             fold_radius |-> 0, modules |-> <<>>]
       ELSE LET all == ExpandHops(0, NewSet(seedModules), NewSet(seedModules),
                                  adjacencyGraph, policy, foldRadius)
                sorted == ArraySort(all)
            IN [error |-> "none", seed |-> 0,
                seed_modules |-> seedModules,
                fold_radius |-> foldRadius,
                modules |-> [i \in 1..Len(sorted) |->
                                BuildModuleData(sorted[i], policy[sorted[i]])]]

\* ids of the modules of a result, in the order returned
ModuleIdsOf(result) == [i \in 1..Len(result.modules) |-> result.modules[i].id]

(***************************************************************************)
(* Inputs of extractNeighborhood                                           *)
(***************************************************************************)
\* candidate edges: the chain i -> i+1, the shortcuts i -> i+2 and the edges
\* back to module 1 that close cycles
AllEdges ==
    {e \in ModuleIds \X ModuleIds :
        \/ e[2] = e[1] + 1
        \/ e[2] = e[1] + 2
        \/ (e[2] = 1 /\ e[1] > 1)}

EdgeSets == {E \in SUBSET AllEdges : Cardinality(E) <= MaxEdges}

\* the adjacency graph of an edge set: a key per module that has neighbours,
\* each neighbour Set listed in ascending insertion order
GraphOf(E) ==
    [m \in {e[1] : e \in E} |-> SetToSortedSeq({e[2] : e \in {d \in E : d[1] = m}})]

\* policies: every module, or every module but one
Policies ==
    {[id \in ModuleIds |-> ModuleMetadata(id)]} \cup
    {[id \in ModuleIds \ {x} |-> ModuleMetadata(id)] : x \in ModuleIds}

\* seed arrays: any order, repeats allowed, possibly empty
SeedIds == {1, 2}
SeedLists == UNION {[1..n -> SeedIds] : n \in 0..MaxSeeds}

(***************************************************************************)
(* SpecNbr: one call of extractNeighborhood on inputs drawn at Init        *)
(***************************************************************************)
InitNbr ==
    /\ inputs = <<NoPut, NoPut>>
    /\ StoreInit
    /\ FrameInit
    /\ nb_in \in {[seedModules |-> s, adjacencyGraph |-> GraphOf(E), policy |-> p] :
                    s \in SeedLists, E \in EdgeSets, p \in Policies}
    /\ nb_radius = 0
    /\ nb_out = NotCalled

\* a caller invokes extractNeighborhood(seedModules, graph, policy, foldRadius)
CallExtract(foldRadius) ==
    /\ nb_out = NotCalled
    /\ nb_radius' = foldRadius
    /\ nb_out' = ExtractNeighborhood(nb_in.seedModules, nb_in.adjacencyGraph,
                                     nb_in.policy, foldRadius)
    /\ UNCHANGED <<stdio, nb_in, storeVars, frameVars>>

NextNbr == \E foldRadius \in Radii : CallExtract(foldRadius)

SpecNbr == InitNbr /\ [][NextNbr]_vars

(***************************************************************************)
(* SpecMeta: extractNeighborhood on policies whose entries carry any of    *)
(* the optional fields                                                     *)
(***************************************************************************)
MetaModules == 2

MetaIds == 1..MetaModules

\* the optional fields of ModuleMetadata
OptionalKeys == ArrayKeys \cup {"description"}

\* a policy entry with the optional fields in present; its arrays are empty
\* or hold one string
MetadataWith(id, present, filled) ==
    [k \in {"coords"} \cup present |->
        IF k = "coords" THEN <<id - 1, 2>>
        ELSE IF k = "description" THEN <<"text">>
        ELSE IF filled THEN <<k>> ELSE <<>>]

\* the first module takes every combination of optional fields, the others
\* none or all of them
MetaPolicies ==
    {[id \in MetaIds |->
        IF id = 1 THEN MetadataWith(1, present, filled)
        ELSE MetadataWith(id, IF id \in full THEN OptionalKeys ELSE {}, TRUE)] :
        present \in SUBSET OptionalKeys, filled \in BOOLEAN,
        full \in SUBSET (MetaIds \ {1})}

MetaEdgeSets == SUBSET {e \in MetaIds \X MetaIds : e[2] = e[1] + 1}

InitMeta ==
    /\ inputs = <<NoPut, NoPut>>
    /\ StoreInit
    /\ FrameInit
    /\ nb_in \in {[seedModules |-> <<1>>, adjacencyGraph |-> GraphOf(E), policy |-> p] :
                    E \in MetaEdgeSets, p \in MetaPolicies}
    /\ nb_radius = 0
    /\ nb_out = NotCalled

NextMeta == \E foldRadius \in 0..1 : CallExtract(foldRadius)

SpecMeta == InitMeta /\ [][NextMeta]_vars

(***************************************************************************)
(* SpecUnion: extractNeighborhood on two seed arrays and on the array that *)
(* holds the seeds of both                                                 *)
(***************************************************************************)
\* first seed arrays: one module
FirstSeeds == {<<a>> : a \in ModuleIds}

\* second seed arrays: one module, or two that are not adjacent
SecondSeeds == {<<b>> : b \in ModuleIds} \cup {<<2, 4>>}

\* policies: every module, or every module but the third
UnionPolicies ==
    {[id \in ModuleIds |-> ModuleMetadata(id)],
     [id \in ModuleIds \ {3} |-> ModuleMetadata(id)]}

UnionRadii == (0..MaxRadius) \cup {BigRadius}

InitUnion ==
    /\ inputs = <<NoPut, NoPut>>
    /\ StoreInit
    /\ FrameInit
    /\ nb_in \in {[seedModules |-> s1 \o s2, s1 |-> s1, s2 |-> s2,
                    adjacencyGraph |-> GraphOf(E), policy |-> p] :
                    s1 \in FirstSeeds, s2 \in SecondSeeds,
                    E \in EdgeSets, p \in UnionPolicies}
    /\ nb_radius = 0
    /\ nb_out = NotCalled

\* a caller invokes extractNeighborhood on the seeds of both arrays together
\* and on each array
CallExtractEach(foldRadius) ==
    /\ nb_out = NotCalled
    /\ nb_radius' = foldRadius
    /\ nb_out' = ExtractNeighborhood(nb_in.seedModules, nb_in.adjacencyGraph,
                                     nb_in.policy, foldRadius)
                  @@ [of_s1 |-> ExtractNeighborhood(nb_in.s1, nb_in.adjacencyGraph,
                                                    nb_in.policy, foldRadius),
                      of_s2 |-> ExtractNeighborhood(nb_in.s2, nb_in.adjacencyGraph,
                                                    nb_in.policy, foldRadius)]
    /\ UNCHANGED <<stdio, nb_in, storeVars, frameVars>>

NextUnion == \E foldRadius \in UnionRadii : CallExtractEach(foldRadius)

SpecUnion == InitUnion /\ [][NextUnion]_vars

(***************************************************************************)
(* The MCP tool lexmap_get_atlas_frame.  It reads the modules of           *)
(* lexmap.policy.json and expands along their allowed_callers (in both     *)
(* directions) and forbidden_callers.  The neighbourhood is kept as the    *)
(* set of its ids; the order of the returned array is not modelled.        *)
(***************************************************************************)
ToolModules == 3

ToolIds == 1..ToolModules

\* an id that lexmap.policy.json does not list
UnlistedId == ToolModules + 1

\* args.fold_radius || 1
FoldRadiusOrOne(fold_radius) ==
    IF ~fold_radius.some \/ fold_radius.v = 0 THEN 1 ELSE fold_radius.v

\* callees.get(moduleId): the modules that list moduleId as allowed caller
Callees(modules, moduleId) ==
    {x \in DOMAIN modules : moduleId \in modules[x].allowed_callers}

\* what one module adds to the neighbourhood
AddedBy(modules, moduleId) ==
    (modules[moduleId].allowed_callers \cap DOMAIN modules)
    \cup Callees(modules, moduleId)
    \cup (modules[moduleId].forbidden_callers \cap DOMAIN modules)

\* for (let hop = 0; hop < foldRadius; hop++) { ... }
RECURSIVE ExpandLayers(_, _, _, _, _)
ExpandLayers(hop, neighborhood, visited, modules, foldRadius) ==
    IF ~(hop < foldRadius) THEN neighborhood
    ELSE LET currentLayer == neighborhood \ visited
         IN ExpandLayers(hop + 1,
                neighborhood \cup UNION {AddedBy(modules, m) : m \in currentLayer},
                visited \cup currentLayer, modules, foldRadius)

\* tools.lexmap_get_atlas_frame.call
lexmap_get_atlas_frame(args, modules) ==
    LET foldRadius == FoldRadiusOrOne(args.fold_radius)
    IN IF \E i \in 1..Len(args.module_scope) : args.module_scope[i] \notin DOMAIN modules
       THEN [error |-> "unknown_module", fold_radius |-> 0, ids |-> {}]
       ELSE [error |-> "none", fold_radius |-> foldRadius,
             ids |-> ExpandLayers(0, Range(args.module_scope), {}, modules, foldRadius)]

\* the modules of a policy file: each lists at most one allowed caller, and
\* the first may list a forbidden caller
ToolPolicies ==
    {[m \in ToolIds |->
        [coords |-> <<m - 1, 2>>,
         allowed_callers |-> IF ac[m] = m THEN {} ELSE {ac[m]},
         forbidden_callers |-> IF m = 1 /\ fc THEN {ToolModules} ELSE {}]] :
        ac \in [ToolIds -> ToolIds \cup {UnlistedId}], fc \in BOOLEAN}

ToolScopes == {<<>>, <<1>>, <<2>>, <<1, ToolModules>>, <<UnlistedId>>}

ToolRadii == {NoNumber} \cup {Some(r) : r \in -1..MaxRadius}

InitTool ==
    /\ inputs = <<NoPut, NoPut>>
    /\ StoreInit
    /\ FrameInit
    /\ nb_in \in {[module_scope |-> s, modules |-> p] : s \in ToolScopes, p \in ToolPolicies}
    /\ nb_radius = NoNumber
    /\ nb_out = NotCalled

\* a client calls lexmap_get_atlas_frame
CallTool(fold_radius) ==
    /\ nb_out = NotCalled
    /\ nb_radius' = fold_radius
    /\ nb_out' = lexmap_get_atlas_frame(
                     [module_scope |-> nb_in.module_scope, fold_radius |-> fold_radius],
                     nb_in.modules)
    /\ UNCHANGED <<stdio, nb_in, storeVars, frameVars>>

NextTool == \E fold_radius \in ToolRadii : CallTool(fold_radius)

SpecTool == InitTool /\ [][NextTool]_vars

(***************************************************************************)
(* Reference notions the neighbourhood claims are stated with              *)
(***************************************************************************)
NbValid == ValidateInputs(nb_in.seedModules, nb_in.policy, nb_radius).error = "none"

\* one more edge from the ids of S, staying inside policy
OneEdgeFrom(S) ==
    {n \in DOMAIN nb_in.policy :
       \E m \in S : /\ m \in DOMAIN nb_in.adjacencyGraph
                    /\ Has(nb_in.adjacencyGraph[m], n)}

RECURSIVE WithinIter(_, _)
WithinIter(k, acc) == IF k = 0 THEN acc ELSE WithinIter(k - 1, acc \cup OneEdgeFrom(acc))

\* ids within r directed edges of a seed along paths of policy modules only
\* (a shortest such path visits no module twice, so it has fewer than
\* NumModules edges and radii beyond NumModules add nothing)
Within(r) ==
    WithinIter(IF r < NumModules THEN r ELSE NumModules, Range(nb_in.seedModules))

\* the ids extractNeighborhood returns for radius r on the inputs of the state
IdsAt(r) ==
    ModuleIdsOf(ExtractNeighborhood(nb_in.seedModules, nb_in.adjacencyGraph,
                                    nb_in.policy, r))

LinearGraph == GraphOf({<<1, 2>>, <<2, 3>>, <<3, 4>>})
CycleGraph == GraphOf({<<1, 2>>, <<2, 3>>, <<3, 1>>})
FullPolicy == [id \in ModuleIds |-> ModuleMetadata(id)]

RECURSIVE AllLevelsIter(_, _, _)
AllLevelsIter(hop, level, seen) ==
    IF hop = 0 THEN seen
    ELSE AllLevelsIter(hop - 1, OneEdgeFrom(level) \ seen,
                       seen \cup OneEdgeFrom(level))

AllLevels(foldRadius) ==
    AllLevelsIter(IF foldRadius < NumModules THEN foldRadius ELSE NumModules,
                  Range(nb_in.seedModules), Range(nb_in.seedModules))

\* C8: once a level n adds no module, every radius >= n returns the same
\* list as radius n, and the early exit returns what running all foldRadius
\* levels would.
C8_Saturation ==
    (nb_out.error = "none") =>
      /\ \A n \in 0..MaxRadius :
            (n <= nb_radius /\ IdsAt(n + 1) = IdsAt(n)) =>
               ModuleIdsOf(nb_out) = IdsAt(n)
      /\ Range(ModuleIdsOf(nb_out)) = AllLevels(nb_radius)

C8_Witness ==
    /\ nb_out.error = "none"
    /\ nb_radius = BigRadius
    /\ IdsAt(2) = IdsAt(1)
    /\ IdsAt(1) # IdsAt(0)
    /\ ModuleIdsOf(nb_out) = IdsAt(1)

\* ids reachable from the seeds along policy modules only, at any distance
PolicyClosure == Within(NumModules)

ReversedGraph ==
    [m \in DOMAIN nb_in.adjacencyGraph |-> Reverse(nb_in.adjacencyGraph[m])]

\* C10: the returned list is sorted ascending by id without repeats, a
\* 3-cycle at radius 3 gives exactly its 3 modules, and the list does not
\* depend on the order of the seed array or of the neighbour Sets.
C10_SortedDeterministic ==
    (nb_out.error = "none") =>
      /\ IsSorted(ModuleIdsOf(nb_out))
      /\ NoDup(ModuleIdsOf(nb_out))
      /\ ModuleIdsOf(nb_out) =
           ModuleIdsOf(ExtractNeighborhood(Reverse(nb_in.seedModules),
                                           ReversedGraph, nb_in.policy,
                                           nb_radius))
      /\ (/\ nb_in.adjacencyGraph = CycleGraph
          /\ nb_in.seedModules = <<1>>
          /\ nb_in.policy = FullPolicy
          /\ nb_radius = 3) => ModuleIdsOf(nb_out) = <<1, 2, 3>>

C10_Witness ==
    /\ nb_out.error = "none"
    /\ nb_in.adjacencyGraph = GraphOf({<<2, 3>>, <<3, 1>>, <<1, 2>>})
    /\ nb_in.seedModules = <<2, 2>>
    /\ nb_radius = 3
    /\ ModuleIdsOf(nb_out) = <<1, 2, 3>>

Recalling == fr_out.via # "none"

\* the results the transport of the last recall can return for a query
RecallVia(query) ==
    IF fr_out.via = "db" THEN recallFrame(frames, frames_fts, atlas_frames, query)
    ELSE mcpRecall(frames, frames_fts, atlas_frames, query)

\* the stored rows that meet the criterion a query is resolved by, read from
\* the frames table alone
Candidates(query) ==
    IF query.frame_id.some THEN {r \in frames : r.id = query.frame_id.v}
    ELSE IF query.reference_point.some
    THEN {r \in frames : Range(query.reference_point.v) \subseteq
                           (Range(r.reference_point) \cup Range(r.summary_caption))}
    ELSE IF query.jira.some THEN {r \in frames : r.jira = query.jira}
    ELSE {}

C14_MissingAtlasIsNull ==
    Recalling =>
       LET res == fr_out.result
           M == Candidates(fr_out.query)
           link == res.frame.atlas_frame_id
           linked == {a \in atlas_frames : link.some /\ a.atlas_frame_id = link.v}
       IN /\ (M # {}) => (res.error = "none" /\ \E r \in M : r.id = res.frame.id)
          /\ (res.error = "none" /\ linked = {}) => res.atlas_frame = None
          /\ (res.error = "none" /\ linked # {}) => res.atlas_frame = Some(TheAtlasFrame)

\* the recalled Frame names Atlas Frame a1, none is stored, and the recall
\* returned the Frame with a null atlas_frame
C14_Witness ==
    /\ fr_out.via = "db"
    /\ atlas_frames = {}
    /\ fr_out.result.error = "none"
    /\ fr_out.result.frame.atlas_frame_id = Some(AtlasId)
    /\ fr_out.result.atlas_frame = None

\* C15 as stated: the frames table holds at most one row per id and
\* getFrameById(id) returns a Frame equal in every field to the Frame most
\* recently inserted with that id.
C15_LastWriteWinsEveryField ==
    \A id \in FrameIds :
      /\ Cardinality({r \in frames : r.id = id}) <= 1
      /\ getFrameById(frames, id) =
            (IF lastFrame[id].some THEN {lastFrame[id].v} ELSE {})

\* an optional string as it is read back: the empty string comes back absent
ReadBack(opt) == IF opt = Some(<<>>) THEN None ELSE opt

\* C15 amended: the frames table holds at most one row per id, and
\* getFrameById(id) returns the Frame most recently inserted with that id,
\* equal in every field except that a jira or atlas_frame_id supplied as the
\* empty string is returned as absent; ids never inserted return nothing.
C15_LastWriteWins ==
    \A id \in FrameIds :
      /\ Cardinality({r \in frames : r.id = id}) <= 1
      /\ getFrameById(frames, id) =
            (IF lastFrame[id].some
             THEN {[lastFrame[id].v EXCEPT
                      !.jira = ReadBack(@), !.atlas_frame_id = ReadBack(@)]}
             ELSE {})

\* Frame f1 was inserted twice with different reference points while f2 was
\* never inserted; one row is stored and it is the second Frame
C15_Witness ==
    /\ nframes = 2
    /\ Cardinality(frames) = 1
    /\ lastFrame[<<"f1">>].some /\ ~lastFrame[<<"f2">>].some
    /\ \E e \in frames_fts :
          e.reference_point # lastFrame[<<"f1">>].v.reference_point
    /\ getFrameById(frames, <<"f1">>) = {lastFrame[<<"f1">>].v}

(***************************************************************************)
(* Claims about write-once facts and the TTL bounds                        *)
(***************************************************************************)
\* the put step that has just been executed
PutStep == op'.n # op.n /\ op'.name = "put"

\* C16: a fact is write-once. A put whose fact_id is already stored changes
\* nothing: the stored row keeps its payload, created timestamp, ttl_seconds,
\* actor and refs, whatever ttl_seconds, actor and refs the request carries,
\* and the put reports inserted = false.
C16_WriteOnce ==
    [][\A r \in facts :
          (PutStep /\ op'.error = "none" /\ op'.fact_id = r.fact_id) =>
             (facts' = facts /\ r \in facts' /\ ~op'.inserted)]_vars

\* a fact written at instant 0 without TTL, actor and refs is re-submitted a
\* minute later with a TTL, an actor and refs: the row is as first written
C16_Witness ==
    /\ op.n = 2 /\ op.name = "put" /\ op.error = "none" /\ ~op.inserted
    /\ op.put.ttl_seconds = Some(MinTtl) /\ op.put.actor = Actor1 /\ op.put.refs = Refs1
    /\ now = 60000
    /\ \E r \in facts :
          /\ r.fact_id = op.fact_id
          /\ r.ts = 0 /\ r.ttl_seconds = NoNumber /\ r.actor = None /\ r.refs = None
          /\ r.payload = Stringify(PayloadNested1)

\* C20: put rejects, without inserting anything, every request whose
\* ttl_seconds is supplied and lies outside [60, maxTtl], 0 and negative
\* numbers included; a request in range, or without ttl_seconds, is accepted.
C20_TtlOutsideRangeRejected ==
    [][PutStep =>
         LET ttl == op'.put.ttl_seconds
             outside == ttl.some /\ (ttl.v < MinTtl \/ ttl.v > MaxTtlSeconds)
         IN /\ outside => (op'.error = "invalid_ttl" /\ facts' = facts)
            /\ ~outside => op'.error = "none"]_vars

\* what the handlers do: a ttl_seconds of 0 passes the test, being false, and
\* the fact is stored with no TTL; every other value outside the range is
\* rejected and nothing is inserted
C20_ZeroTtlAccepted ==
    [][PutStep =>
         LET ttl == op'.put.ttl_seconds
             outside == ttl.some /\ ttl.v # 0 /\ (ttl.v < MinTtl \/ ttl.v > MaxTtlSeconds)
         IN /\ outside => (op'.error = "invalid_ttl" /\ facts' = facts)
            /\ ~outside =>
                 /\ op'.error = "none"
                 /\ \E r \in facts' :
                       /\ r.fact_id = op'.fact_id
                       /\ (op'.inserted => r.ttl_seconds = OrNullNumber(ttl))]_vars

\* a put with ttl_seconds 0 has been answered inserted = true, and the fact
\* is stored without a TTL
C20_Witness ==
    /\ op.name = "put" /\ op.put.ttl_seconds = Some(0)
    /\ op.error = "none" /\ op.inserted
    /\ \E r \in facts : r.fact_id = op.fact_id /\ r.ttl_seconds = NoNumber

(***************************************************************************)
(* Claims about the content hash                                           *)
(***************************************************************************)
\* C17: the content hash is independent of key order: two structurally
\* equal values whose object keys are listed in different orders, at any
\* nesting depth, have the same digest.
C17_KeyOrderIndependent ==
    op.digests # <<>> => op.digests[1] = op.digests[2]

\* the server has hashed two payloads whose keys are listed in opposite
\* orders both at the top and one level down
C17_Witness ==
    /\ op.name = "server" /\ op.digests # <<>> /\ op.digests[1] = op.digests[2]
    /\ LET v == inputs[1].payload
           w == inputs[2].payload
       IN /\ ObjectKeys(v) = <<"a", "b">> /\ ObjectKeys(w) = <<"b", "a">>
          /\ ObjectKeys(v.kv[1][2]) = <<"a", "b">>
          /\ ObjectKeys(w.kv[2][2]) = <<"b", "a">>
          /\ Stringify(v) # Stringify(w)

(***************************************************************************)
(* Claims about releasing and holding locks                                *)
(***************************************************************************)
\* the lock operation that has just been executed
LockStep(kind, l) == op'.n # op.n /\ op'.name = kind /\ op'.lock = l

\* C18: release(name) returns true exactly when it removed a held lock;
\* releasing a name that is not held returns false, raises no error, and
\* leaves the locks table and every other table as they were.
C18_ReleaseReportsRemoval ==
    [][\A l \in LockNames :
          LockStep("unlock", l) =>
             /\ op'.ok <=> [name |-> l] \in locks
             /\ locks' = locks \ {[name |-> l]}
             /\ op'.error = "none"
             /\ facts' = facts
             /\ frames' = frames /\ frames_fts' = frames_fts
             /\ atlas_frames' = atlas_frames]_vars

\* the MCP caller has released y, which nobody holds, while x is held and a
\* fact and a Frame are stored: the answer is false and all is as it was
C18_Witness ==
    /\ op.name = "unlock" /\ op.caller = "c2" /\ op.lock = "y"
    /\ ~op.ok /\ op.error = "none"
    /\ locks = {[name |-> "x"]}
    /\ facts # {} /\ frames # {}

\* C19: a held lock has no lease, owner or expiry: it stays held through
\* the passage of time and through every put, get, collection, insertFrame
\* and acquire by any caller, and becomes free only when a release of its
\* name executes, whoever the caller of that release is.
C19_HeldUntilReleased ==
    [][\A l \in LockNames :
          /\ ([name |-> l] \in locks /\ [name |-> l] \notin locks') =>
                LockStep("unlock", l)
          /\ LockStep("unlock", l) => [name |-> l] \notin locks']_vars

\* x, acquired by c1 in the first operation, is still held after a put, the
\* passage of a minute, a collection that deleted the expired fact, an
\* insertFrame, and an acquire of x by c2, which has just failed
C19_Witness ==
    /\ [name |-> "x"] \in locks
    /\ op.since["x"] = 1 /\ op.taker["x"] = "c1"
    /\ op.n >= 3 /\ op.name = "lock" /\ op.caller = "c2" /\ op.lock = "x"
    /\ ~op.ok
    /\ now = HoldLater /\ gc = [at |-> HoldLater, deleted |-> 1]
    /\ frames # {}

(***************************************************************************)
(* Claims about get                                                        *)
(***************************************************************************)
\* row equals query on repo, commit and kind and on every optional field
\* the query supplies
EqualsQuery(row, query) ==
    /\ row.repo = query.repo /\ row.commit = query.commit /\ row.kind = query.kind
    /\ \A f \in {"path", "symbol"} : query[f].some => row[f] = query[f]
    /\ query.inputs_hash.some => row.inputs_hash = query.inputs_hash.v

\* C21: get returns exactly the stored facts that equal the query on repo,
\* commit and kind and on every optional field that was supplied; an omitted
\* optional field places no constraint; no match yields an empty list, not
\* an error.
C21_GetExactMatch ==
    op.name = "get" =>
        op.rows = {RowToFact(r) : r \in {r \in facts : EqualsQuery(r, op.query)}}

\* a get that omits path and symbol has returned two facts, one stored with a
\* path and one stored without
C21_Witness ==
    /\ op.name = "get" /\ ~op.query.path.some /\ ~op.query.symbol.some
    /\ Cardinality(op.rows) = 2
    /\ \E f \in op.rows : f.scope.path = Some(<<"p">>)
    /\ \E f \in op.rows : f.scope.path = None

\* the last put stored its fact and the get that followed carries the put's
\* own repo, commit, kind, path, symbol and inputs_hash
OwnGet ==
    /\ op.name = "get" /\ op.n > 0
    /\ op.error = "none" /\ op.inserted
    /\ op.query = OwnQuery(op.put)

\* the get has returned the fact of the last put, with the payload submitted
Returned ==
    \E f \in op.rows : f.fact_id = op.fact_id /\ f.payload = op.put.payload

\* C22: round trip: after a successful put, a get with the put's own repo,
\* commit and kind, and with the put's own path, symbol and inputs_hash as
\* filters, returns a fact that has the fact_id the put returned and a
\* payload equal to the payload submitted.
C22_RoundTrip == OwnGet => Returned

\* what the code does: the round trip holds when the put's path and symbol
\* are omitted or non-empty; an empty path is stored as NULL, which the
\* filter path = '' never matches
C22_RoundTripNamed ==
    (OwnGet /\ op.put.scope.path # Some(<<>>) /\ op.put.scope.symbol # Some(<<>>)) => Returned

\* a put with path '' has stored its fact and its own get has returned nothing
C22_Witness ==
    /\ OwnGet /\ op.put.scope.path = Some(<<>>)
    /\ op.rows = {}
    /\ \E r \in facts : r.fact_id = op.fact_id /\ r.path = None

(***************************************************************************)
(* Claims about Atlas Frames and their links                               *)
(***************************************************************************)
\* C23: a stored Atlas Frame is immutable: once insertAtlasFrame has stored
\* an atlas_frame_id, no later operation, another insertAtlasFrame of the
\* same atlas_frame_id included, changes what getAtlasFrameById returns for
\* that id.
C23_AtlasFrameImmutable ==
    [][\A id \in AtlasIds :
          getAtlasFrameById(atlas_frames, id).some =>
             getAtlasFrameById(atlas_frames', id) = getAtlasFrameById(atlas_frames, id)]_vars

\* what the code does: getAtlasFrameById returns the Atlas Frame most
\* recently inserted under the id, and an insert leaves the other ids alone
C23_LastAtlasFrameWins ==
    [][op'.n # op.n =>
         \A id \in AtlasIds :
            getAtlasFrameById(atlas_frames', id) =
               IF Field(op'.atlas.v, "atlas_frame_id").s = id THEN op'.atlas
               ELSE getAtlasFrameById(atlas_frames, id)]_vars

\* a1 was stored around module ui and has been stored again around core:
\* getAtlasFrameById(a1) now returns the second
C23_Witness ==
    /\ op.n = 2 /\ op.name = "insertAtlasFrame"
    /\ op.atlas = Some(AtlasFrame(<<"a1">>, <<"f1">>, <<"t1">>, <<"core">>, 1))
    /\ getAtlasFrameById(atlas_frames, <<"a1">>) = op.atlas
    /\ Cardinality(atlas_frames) = 1

\* C24: a Frame's atlas_frame_id is set at most once: once a stored Frame
\* has a non-null atlas_frame_id, no later operation on that Frame id gives
\* it a different atlas_frame_id or clears it.
C24_LinkSetAtMostOnce ==
    [][\A r \in frames :
          r.atlas_frame_id.some =>
             \A r2 \in frames' : r2.id = r.id => r2.atlas_frame_id = r.atlas_frame_id]_vars

\* what the code does: the stored link is the one of the last insertFrame of
\* the id, whatever link the row had before
C24_LinkFollowsLastInsert ==
    \A r \in frames :
       /\ lastFrame[r.id].some
       /\ r.atlas_frame_id = OrNull(lastFrame[r.id].v.atlas_frame_id)

\* Frame f1 has been inserted twice and is stored without a link, while the
\* index still holds the entry of the row that the second insert replaced
C24_Witness ==
    /\ nframes = 2
    /\ \E r \in frames : r.id = <<"f1">> /\ r.atlas_frame_id = None /\ r.rowid = 2
    /\ \E e \in frames_fts : e.id = <<"f1">> /\ e.rowid = 1

\* the lookup that has just been executed
LookupStep == op'.name = "lookup" /\ op' # op

\* C25: each Frame is linked to at most one Atlas Frame: the store never
\* holds two Atlas Frames with the same frame_id, so getAtlasFrameByFrameId(f)
\* and the atlas_frame that recall returns for Frame f are the same record.
C25_OneAtlasFramePerFrame ==
    [][/\ \A r1 \in atlas_frames' : \A r2 \in atlas_frames' :
             r1.frame_id = r2.frame_id => r1 = r2
       /\ LookupStep => op'.by_frame = op'.by_recall]_vars

\* what the code does: only atlas_frame_id is unique, and the two lookups
\* follow different columns: frame_id of the Atlas Frame, and the
\* atlas_frame_id of the Frame
C25_LookupsFollowTheirColumns ==
    [][/\ \A r1 \in atlas_frames' : \A r2 \in atlas_frames' :
             r1.atlas_frame_id = r2.atlas_frame_id => r1 = r2
       /\ LookupStep =>
             /\ op'.by_frame.some =>
                   \E r \in atlas_frames :
                      /\ r.frame_id = <<"f1">>
                      /\ r.atlas_frame_id = Field(op'.by_frame.v, "atlas_frame_id").s
             /\ op'.by_recall.some =>
                   \E r \in frames :
                      /\ r.id = <<"f1">>
                      /\ r.atlas_frame_id = Some(Field(op'.by_recall.v, "atlas_frame_id").s)]_vars

\* two Atlas Frames of Frame f1 are stored, the Frame is linked to a2, and
\* the lookup by frame_id has returned a1 while recall has returned a2
C25_Witness ==
    /\ Cardinality({r \in atlas_frames : r.frame_id = <<"f1">>}) = 2
    /\ op.name = "lookup"
    /\ op.by_frame.some /\ Field(op.by_frame.v, "atlas_frame_id").s = <<"a1">>
    /\ op.by_recall.some /\ Field(op.by_recall.v, "atlas_frame_id").s = <<"a2">>

\* C26: every module id in the module_scope of every stored Frame is the id
\* of a module of the policy; a Frame whose module_scope names a module
\* unknown to the policy is rejected instead of being stored.
C26_ModuleScopeInPolicy ==
    \A r \in frames :
       \A i \in 1..Len(ParseArray(r.module_scope)) :
          ParseArray(r.module_scope)[i] \in PolicyModules

\* Frame f2 is stored and getFrameById returns it with "ux" in its
\* module_scope
C26_Witness ==
    \E f \in getFrameById(frames, <<"f2">>) :
       /\ f # NoFrame
       /\ f.module_scope = << <<"ui">>, <<"ux">> >>

(***************************************************************************)
(* Claims about reference-point matching                                   *)
(***************************************************************************)
\* stem of the documented algorithm (the suffixes ing, ed and s removed),
\* on the words of the model
stem(word) ==
    CASE word = "deadlocks" -> "deadlock"
      [] word = "fixed" -> "fix"
      [] word = "fixing" -> "fix"
      [] OTHER -> word

\* normalize of the documented algorithm: the words of the model are in
\* lower case and without punctuation
normalize(text) == [i \in 1..Len(text) |-> stem(text[i])]

\* fuzzyMatch of the documented algorithm with its threshold of 0.6: the
\* share of the query's tokens that occur among the candidate's (no word of
\* the model is part of another)
fuzzyMatch(query, candidate) ==
    LET queryTokens == normalize(query)
        candidateTokens == normalize(candidate)
        matches == SelectSeq(queryTokens, LAMBDA qt : Has(candidateTokens, qt))
    IN 10 * Len(matches) >= 6 * Len(queryTokens)

\* the last recall was resolved by reference point
ByReferencePoint ==
    Recalling /\ ~fr_out.query.frame_id.some /\ fr_out.query.reference_point.some

\* C27: recall by reference point accepts a stored Frame whenever the
\* fraction of the query's normalised tokens found in the Frame's reference
\* point reaches the threshold of 0.6: a query of which some tokens are
\* absent from the stored text, or differ from it only by a suffix, matches.
C27_ThresholdOverlapMatches ==
    (/\ ByReferencePoint
     /\ \E r \in frames : fuzzyMatch(fr_out.query.reference_point.v, r.reference_point)) =>
        fr_out.result.error = "none"

\* what the code does: a Frame is accepted only when every token of the
\* query occurs, as it is written, among the tokens indexed for the Frame
C27_EveryTokenMatches ==
    ByReferencePoint =>
       /\ fr_out.result.error = "none" <=> Candidates(fr_out.query) # {}
       /\ fr_out.result.error = "none" =>
             Range(fr_out.query.reference_point.v) \subseteq
                (Range(fr_out.result.frame.reference_point)
                   \cup Range(fr_out.result.frame.summary_caption))

\* a Frame with the reference point "auth deadlock" is stored and the recall
\* of "auth deadlock bug", two of whose three tokens it holds, found nothing
C27_Witness ==
    /\ ByReferencePoint
    /\ fr_out.query.reference_point.v = <<"auth", "deadlock", "bug">>
    /\ \E r \in frames : r.reference_point = <<"auth", "deadlock">>
    /\ fr_out.result.error = "not_found"

(***************************************************************************)
(* Claims about the kinds of facts                                         *)
(***************************************************************************)
\* the fixed enumeration of kinds
KindEnumeration ==
    {<<"repo_scan">>, <<"dep_graph">>, <<"dep_score">>, <<"plan">>, <<"merge_order">>,
     <<"gate_result">>, <<"artifact">>, <<"note">>, <<"frame">>, <<"atlas_frame">>}

\* C28: put accepts exactly the fixed kind enumeration on every transport:
\* a fact of each of these kinds is stored, and a put with any other kind is
\* rejected without inserting a row.
C28_KindEnumeration ==
    [][PutStep =>
         IF op'.put.kind \in KindEnumeration
         THEN /\ op'.error = "none"
              /\ \E r \in facts' : r.fact_id = op'.fact_id /\ r.kind = op'.put.kind
         ELSE /\ op'.error # "none"
              /\ facts' = facts]_vars

\* what the code does: POST /put accepts the nine kinds of ThoughtKind,
\* atlas_frame not among them, and thought_put accepts every kind
C28_KindsPerTransport ==
    [][PutStep =>
         IF op'.put.via = "mcp" \/ op'.put.kind \in ThoughtKind
         THEN /\ op'.error = "none"
              /\ \E r \in facts' : r.fact_id = op'.fact_id /\ r.kind = op'.put.kind
         ELSE /\ op'.error = "invalid_request"
              /\ facts' = facts]_vars

\* a fact of kind bogus is stored (through thought_put) and the POST /put of
\* a fact of kind atlas_frame has been rejected
C28_Witness ==
    /\ \E r \in facts : r.kind = <<"bogus">>
    /\ op.name = "put" /\ op.put.via = "http" /\ op.put.kind = <<"atlas_frame">>
    /\ op.error = "invalid_request"
    /\ ~\E r \in facts : r.kind = <<"atlas_frame">>

(***************************************************************************)
(* Claims about eventual deletion                                          *)
(***************************************************************************)
\* the rows the put requests of SpecGc can store
GcRows == UNION {put(a, {}, t).table : a \in GcPuts, t \in Instants}

\* created_at + ttl_seconds has passed
Passed(r) == r.ttl_seconds.some /\ r.ts + r.ttl_seconds.v * 1000 < now

\* C29: on the HTTP server, where the collection runs at startup and then
\* on a timer, every fact stored with a TTL is eventually deleted once
\* created_at + ttl_seconds has passed, as long as the timer keeps firing;
\* a run that fails does not stop later runs.
C29_EventualDeletion ==
    \A r \in GcRows : (r \in facts /\ Passed(r)) ~> (r \notin facts)

\* a run failed, a later run has deleted the expired fact, and the timer is
\* still armed
C29_Witness ==
    /\ op.error = "recovered" /\ op.timer = "armed"
    /\ gc = [at |-> 61000, deleted |-> 1]
    /\ op.n >= 1 /\ ~\E r \in facts : r.ttl_seconds.some

(***************************************************************************)
(* Claims about module metadata                                            *)
(***************************************************************************)
\* C30: every module in the result of extractNeighborhood carries id,
\* coords and the five arrays allowed_callers, forbidden_callers,
\* feature_flags, requires_permissions and kill_patterns copied from its
\* policy entry, and an array absent from the entry is returned as an empty
\* array, never omitted.
C30_ModuleMetadata ==
    nb_out.error = "none" =>
        \A i \in 1..Len(nb_out.modules) :
            LET module == nb_out.modules[i]
                entry == nb_in.policy[module.id]
            IN /\ DOMAIN module = {"id", "coords"} \cup ArrayKeys
               /\ module.coords = entry.coords
               /\ \A k \in ArrayKeys :
                     module[k] = IF k \in DOMAIN entry THEN entry[k] ELSE <<>>

\* a result with two modules: one whose entry has some arrays and lacks
\* others, one whose entry has coords only
C30_Witness ==
    /\ nb_out.error = "none"
    /\ Len(nb_out.modules) = 2
    /\ DOMAIN nb_in.policy[1] = {"coords", "description", "feature_flags", "kill_patterns"}
    /\ nb_in.policy[1].feature_flags = <<"feature_flags">>
    /\ DOMAIN nb_in.policy[2] = {"coords"}
    /\ nb_out.modules[1].allowed_callers = <<>>
    /\ nb_out.modules[1].feature_flags = <<"feature_flags">>
    /\ nb_out.modules[2].kill_patterns = <<>>

(***************************************************************************)
(* Claims about collection beside puts                                     *)
(***************************************************************************)
\* server s executes its DELETE in this step
DeleteStep(s) == op.runs[s].state = "started" /\ op'.runs[s].state = "idle"

\* C31: expire evaluates the age condition against the clock at the moment
\* the delete executes: a fact leaves the table only in the DELETE of a
\* run, only when its created_at + ttl_seconds is before the time of that
\* step, and only when it was stored before the run started.
C31_ExpireAtExecutionTime ==
    [][\A r \in facts \ facts' :
          /\ r.ttl_seconds.some
          /\ r.ts + r.ttl_seconds.v * 1000 < now
          /\ \E s \in Servers : DeleteStep(s) /\ r \in op.runs[s].snapshot]_vars

\* a run has deleted one fact and left a fact with a TTL that was stored
\* after the run started
C31_Witness ==
    /\ op.name = "expire"
    /\ gc.deleted = 1
    /\ \E r \in facts : r.ttl_seconds.some /\ r \notin op.rows

(***************************************************************************)
(* Claims about seed sets                                                  *)
(***************************************************************************)
\* C32: for seed arrays S1 and S2 and any radius r, the modules of
\* extractNeighborhood on the seeds of both are exactly the modules of
\* extractNeighborhood(S1, r) together with those of
\* extractNeighborhood(S2, r).
C32_SeedUnion ==
    nb_out.error = "none" =>
        /\ nb_out.of_s1.error = "none"
        /\ nb_out.of_s2.error = "none"
        /\ Range(ModuleIdsOf(nb_out)) =
              Range(ModuleIdsOf(nb_out.of_s1)) \cup Range(ModuleIdsOf(nb_out.of_s2))

\* on the chain 1->2->3->4 with seeds 1 and 3 and radius 2, module 3 is
\* reached from seed 1 and is still expanded as a seed
C32_Witness ==
    /\ nb_out.error = "none"
    /\ nb_in.s1 = <<1>> /\ nb_in.s2 = <<3>>
    /\ nb_in.adjacencyGraph = LinearGraph
    /\ nb_radius = 2
    /\ ModuleIdsOf(nb_out.of_s1) = <<1, 2, 3>>
    /\ ModuleIdsOf(nb_out.of_s2) = <<3, 4>>
    /\ ModuleIdsOf(nb_out) = <<1, 2, 3, 4>>

(***************************************************************************)
(* Claims about lexmap_get_atlas_frame                                     *)
(***************************************************************************)
\* the ids within k hops of the seeds along the relation the tool expands
RECURSIVE HopsFrom(_, _)
HopsFrom(k, acc) ==
    IF k <= 0 THEN acc
    ELSE HopsFrom(k - 1, acc \cup UNION {AddedBy(nb_in.modules, m) : m \in acc})

\* C33: lexmap_get_atlas_frame honours the fold radius as the extractor
\* does: fold_radius 0 returns only the seed modules, and fold_radius k
\* expands exactly k hops from them.
C33_ToolHonoursRadius ==
    (nb_out.error = "none" /\ nb_radius.some /\ nb_radius.v >= 0) =>
        /\ nb_out.ids = HopsFrom(nb_radius.v, Range(nb_in.module_scope))
        /\ nb_radius.v = 0 => nb_out.ids = Range(nb_in.module_scope)

\* what the tool does: a fold_radius of 0, like an absent one, is taken as 1
C33_ZeroIsOne ==
    nb_out.error = "none" =>
        nb_out.ids = HopsFrom(FoldRadiusOrOne(nb_radius), Range(nb_in.module_scope))

\* fold_radius 0 on seed 1, whose only allowed caller is module 2: the tool
\* returns modules 1 and 2
C33_Witness ==
    /\ nb_out.error = "none"
    /\ nb_radius = Some(0)
    /\ nb_in.module_scope = <<1>>
    /\ nb_in.modules[1].allowed_callers = {2}
    /\ nb_out.ids = {1, 2}

(***************************************************************************)
(* Claims about facts whose TTL has passed                                 *)
(***************************************************************************)
\* C34: get does not filter by age: a fact whose created_at + ttl_seconds
\* has passed is returned by get, and makes a put of the identical fact
\* answer inserted=false, for as long as no expire run has deleted it.
C34_StaleUntilExpired ==
    /\ op.name = "get" =>
          \A r \in facts : EqualsQuery(r, op.query) => RowToFact(r) \in op.rows
    /\ (op.name = "put" /\ op.error = "none") =>
          /\ op.inserted = ~op.existed
          /\ \E r \in facts : r.fact_id = op.fact_id

\* a get has just returned a fact that the next expire run would delete
C34_Witness ==
    /\ op.name = "get"
    /\ \E r \in facts : Expired(r, now) /\ RowToFact(r) \in op.rows

\* a put has just answered inserted=false because of a fact that the next
\* expire run would delete
C34_WitnessPut ==
    /\ op.name = "put" /\ op.error = "none" /\ ~op.inserted
    /\ \E r \in facts : r.fact_id = op.fact_id /\ Expired(r, now)

(***************************************************************************)
(* Claims about facts stored again after deletion                          *)
(***************************************************************************)
\* C35: deletion leaves no tombstone: after expire has deleted a fact, a put
\* of the identical kind, scope, inputs_hash and payload yields the same
\* fact_id as before with inserted=true and a fresh created timestamp, and
\* get returns the fact again.
C35_NoTombstone ==
    /\ (op.name = "put" /\ op.error = "none") =>
          \A d \in op.back :
              /\ op.inserted
              /\ op.fact_id = d.fact_id
              /\ \E r \in facts : r.fact_id = d.fact_id /\ r.ts = now /\ r.ts > d.ts
    /\ op.name = "get" =>
          \A r \in facts :
              (EqualsQuery(r, op.query) /\ StoredFrom(r, op.put) /\ op.back # {})
                  => RowToFact(r) \in op.rows

\* a get has just returned a fact that was deleted and then put again
C35_Witness ==
    /\ op.name = "get" /\ op.back # {} /\ op.inserted
    /\ \E r \in facts :
          /\ StoredFrom(r, op.put) /\ RowToFact(r) \in op.rows
          /\ \E d \in op.back : d.fact_id = r.fact_id /\ r.ts > d.ts

(***************************************************************************)
(* Claims about the search index                                           *)
(***************************************************************************)
\* the stored rows whose indexed text holds every word of a query
RowsMatching(text) == {r \in frames : FtsMatch(FtsEntry(r), text)}

\* a text recall finds a Frame exactly when a stored row matches on its
\* present text, and returns such a Frame
RecallOnPresentText ==
    (Recalling /\ ~fr_out.query.frame_id.some /\ fr_out.query.reference_point.some) =>
        LET M == RowsMatching(fr_out.query.reference_point.v)
        IN /\ (M = {}) <=> (fr_out.result.error = "not_found")
           /\ (M # {}) => \E r \in M : RowToFrame(r) = fr_out.result.frame

\* C36: the search index stays consistent with the frames table across
\* replacement: after insertFrame replaces a Frame whose reference_point,
\* summary_caption or keywords changed, a text recall matches that Frame
\* only on its new text, and the index holds no entry for a row that no
\* longer exists.
C36_IndexConsistent ==
    /\ RecallOnPresentText
    /\ \A e \in frames_fts : \E r \in frames : r.rowid = e.rowid

\* what the tables do: recalls follow the present text, every row has its
\* index entry, and the entries of replaced rows stay in the index
C36_RecallFollowsFrames ==
    /\ RecallOnPresentText
    /\ \A r \in frames : FtsEntry(r) \in frames_fts
    /\ Cardinality(frames_fts) = nframes

\* Frame f1 was stored with reference point alpha and again with beta: the
\* index still holds the entry of the replaced row, and a recall of alpha
\* finds nothing
C36_Witness ==
    /\ \E e \in frames_fts :
          /\ e.reference_point = <<"alpha">>
          /\ ~\E r \in frames : r.rowid = e.rowid
    /\ \A r \in frames : r.reference_point = <<"beta">>
    /\ fr_out.query.reference_point = Some(<<"alpha">>)
    /\ fr_out.result.error = "not_found"

(***************************************************************************)
(* Claims about fact ids across transports                                 *)
(***************************************************************************)
\* two stored rows hold the same kind, scope, inputs_hash and payload
SameContent(r1, r2) ==
    /\ r1.kind = r2.kind
    /\ r1.repo = r2.repo /\ r1.commit = r2.commit
    /\ r1.path = r2.path /\ r1.symbol = r2.symbol
    /\ r1.inputs_hash = r2.inputs_hash
    /\ r1.payload = r2.payload

\* C37: the HTTP server, the SDK and the stdio MCP server compute the same
\* fact_id for the same kind, scope, inputs_hash and payload, so a fact
\* stored through one transport is a duplicate (inserted=false) when put
\* through another on the same database: the table never holds two rows of
\* the same content.
C37_OneIdAcrossTransports ==
    /\ \A r1 \in facts : \A r2 \in facts : SameContent(r1, r2) => r1.fact_id = r2.fact_id
    /\ (op.name = "put" /\ op.error = "none" /\ op.inserted) =>
          Cardinality({r \in facts : StoredFrom(r, op.put)}) = 1

\* the SDK computes the fact_id the HTTP server stores
C37_SdkAgreesWithServer ==
    (op.name = "put" /\ op.error = "none" /\ op.put.via = "http") =>
        op.fact_id = sdkSha256(JObj(<< <<"kind", JStr(op.put.kind)>>,
                                       <<"scope", ScopeObject(op.put.scope)>>,
                                       <<"inputs_hash", JStr(op.put.inputs_hash)>>,
                                       <<"payload_hash", JStr(sdkSha256(op.put.payload))>> >>))

\* a fact stored over HTTP was put again through the MCP tool and stored a
\* second time under another fact_id
C37_Witness ==
    /\ op.name = "put" /\ op.put.via = "mcp" /\ op.inserted
    /\ \E r1 \in facts : \E r2 \in facts :
          /\ SameContent(r1, r2) /\ StoredFrom(r1, op.put)
          /\ r1.fact_id = op.fact_id
          /\ r2.fact_id = FactIdOf([op.put EXCEPT !.via = "http"])
          /\ r1.fact_id # r2.fact_id

(***************************************************************************)
(* Claims about the zk mode of the SDK                                     *)
(***************************************************************************)
\* the fact x of a get response holds the ciphertext that a put of the fact
\* a sent
SentFor(x, a) ==
    \E iv \in Ivs : x.fact.payload = sdkPutBody(a, KeyHex1, iv).payload

\* C38: for a fact stored with LexBrain.put in zk mode, the decrypt helper
\* that LexBrain.get attaches to the returned fact (same key) yields the
\* original payload, and the associated data checked at decryption equals
\* the associated data used at encryption.
C38_ZkRoundTrip ==
    op.name = "sdk_get" =>
        \A x \in op.rows : \A i \in 1..2 :
            SentFor(x, inputs[i].fact) =>
                /\ ~x.decrypt.threw
                /\ x.decrypt.value = inputs[i].fact.payload
                /\ x.fact.fact_id = preliminaryFactId(inputs[i].fact)

\* the ciphertext of a returned fact does decrypt to the original payload
\* under the key of the SDK when the associated data of the encryption is
\* given, and every returned fact holds the ciphertext of a put
C38_DecryptsUnderEncryptionAad ==
    op.name = "sdk_get" =>
        \A x \in op.rows :
            /\ \E i \in 1..2 : SentFor(x, inputs[i].fact)
            /\ \A i \in 1..2 :
                 SentFor(x, inputs[i].fact) =>
                    LET d == decryptZk(KeyHex1, Field(x.fact.payload, "iv").s,
                                       Field(x.fact.payload, "ciphertext").s,
                                       preliminaryFactId(inputs[i].fact))
                    IN d.ok /\ Parse(d.plaintext) = inputs[i].fact.payload

\* a get returned a fact that a put stored, and its decrypt helper threw:
\* the associated data in the ciphertext is not the fact_id of the fact
C38_Witness ==
    /\ op.name = "sdk_get"
    /\ \E x \in op.rows :
          /\ SentFor(x, op.put)
          /\ x.decrypt.threw
          /\ x.decrypt.extractedAad = preliminaryFactId(op.put)
          /\ x.decrypt.extractedAad # x.fact.fact_id

(***************************************************************************)
(* Claims about the stdio framing                                          *)
(***************************************************************************)
\* the newline-terminated lines of a text, in order: every newline ends
\* the line that began after the newline before it
CompleteLines(text) ==
    LET ends == {i \in 1..Len(text) : text[i] = "\n"}
        StartOf(e) == IF \E j \in ends : j < e THEN Max({j \in ends : j < e}) + 1 ELSE 1
    IN [n \in 1..Cardinality(ends) |->
          LET e == CHOOSE i \in ends : Cardinality({j \in ends : j <= i}) = n
          IN SubSeq(text, StartOf(e), e - 1)]

IsBlankLine(line) == \A i \in 1..Len(line) : line[i] = " "

\* the lines the server is to handle once everything of the text arrived
ToHandle(text) == SelectSeq(CompleteLines(text), LAMBDA l : ~IsBlankLine(l))

\* what follows the last newline of a text
Unfinished(text) ==
    LET ends == {i \in 1..Len(text) : text[i] = "\n"}
    IN IF ends = {} THEN text ELSE SubSeq(text, Max(ends) + 1, Len(text))

LinesOf(log) == [i \in 1..Len(log) |-> log[i].line]

\* the text that stdin delivers in the whole run
WholeInput == stdio.arrived \o stdio.stdin

\* C39: the MCP server handles every complete newline-terminated line
\* exactly once and in arrival order, however the input is split into
\* chunks: at every moment the lines handled, followed by those the running
\* loop has yet to reach, are the complete non-blank lines of what has
\* arrived; a line split across chunks is kept in the buffer until its
\* newline arrives; a handled line stays handled; and every complete line of
\* the input is eventually handled, whatever the lines before it did.
C39_StdioFraming ==
    /\ [](/\ LinesOf(stdio.handled) \o SelectSeq(stdio.lines, LAMBDA l : ~IsBlankLine(l))
               = ToHandle(stdio.arrived)
          /\ stdio.buffer = Unfinished(stdio.arrived))
    /\ [][/\ Len(stdio'.handled) >= Len(stdio.handled)
          /\ SubSeq(stdio'.handled, 1, Len(stdio.handled)) = stdio.handled]_vars
    /\ <>[](LinesOf(stdio.handled) = ToHandle(WholeInput))

\* two lines arrived, one of them split across chunks: the first line was
\* handled once and threw, and the line after it was handled
C39_Witness ==
    /\ stdio.arrived = <<"null", " ", "\n", "req", "\n">>
    /\ stdio.carried
    /\ stdio.lines = <<>>
    /\ Len(stdio.handled) = 2
    /\ stdio.handled[1] = [line |-> <<"null", " ">>, to |-> "stderr", wrote |-> "Parse error"]
    /\ stdio.handled[2] = [line |-> <<"req">>, to |-> "stdout", wrote |-> "response"]

====
